---------------------------- MODULE Spec2Model ----------------------------
(***************************************************************************)
(* A model of the iperf2 measurement pipeline: the traffic threads, the    *)
(* per-thread packet ring (PacketRing, include/Reporter.h), the reporter   *)
(* thread that drains the rings, and the process-level interrupt           *)
(* (Sig_Interupt, src/main.cpp).                                           *)
(*                                                                         *)
(* Reporter.c, which implements the functions Reporter.h declares, is not  *)
(* among the source files; the operations on the ring, the reporter loop,  *)
(* the barrier, the interval rows and the group SUM rows are modelled from *)
(* the specification (sections 4.1 to 4.4 and 5) over the state Reporter.h *)
(* declares.  TimeAdd and TimeDifference are the macros of Reporter.h.     *)
(*                                                                         *)
(* A Condition is a POSIX condition variable with its mutex: a thread      *)
(* waits with the mutex held (the wait releases it), and a signal is sent  *)
(* with the mutex taken (spec section 9: every mutator of the reporter     *)
(* wake condition takes a named lock).  A waiter wakes only when it is     *)
(* signalled.                                                              *)
(***************************************************************************)
EXTENDS Integers, Sequences, FiniteSets, TLC

\* ------------------------------------------------------------------ bounds
\* Slots of a packet ring in the model (PacketRing.maxcount).
RingSize == 3
\* Data records a traffic thread reports before its final record, when
\* several threads run.
MaxRecords == 2
\* Data records the traffic thread reports when it runs alone.
RingRecords == 4
\* Threads a signal can be delivered to.
NumSigThreads == 2
\* Client threads of a parallel group (-P), at most.
MaxThreads == 3
\* Ticks of the clock while a group starts.
MaxClock == 4
\* Data records the reporter handles in a run of the interval reports.
MaxPackets == 3
MaxPacketID == 4
MaxDatagrams == 3

\* ------------------------------------------------------- program constants
NUM_REPORT_STRUCTS == 5000
\* SUM slots of a group (MultiHeader.data).
NUM_MULTI_SLOTS == 5
SIGINT == 2
SIGALRM == 14
SIGTERM == 15
\* Microseconds in a second.
rMillion == 1000000

\* The traffic threads (flows), each with its own ReportHeader and PacketRing,
\* in the order of the reporter's list.
Flows == {1, 2}
Slots == 0..(RingSize - 1)
Signals == {SIGINT, SIGTERM, SIGALRM}
SigThreads == 1..NumSigThreads

VARIABLES
    \* PacketRing, one per flow
    producer,       \* PacketRing.producer: next slot the traffic thread fills
    consumer,       \* PacketRing.consumer: next slot the reporter reads
    data,           \* PacketRing.data: the slots, each a packetID (0: never written)
    consumerdone,   \* PacketRing.consumerdone
    awaitLocked,    \* mutex of PacketRing.await_consumer is held
    awaitWaiting,   \* the traffic thread waits on PacketRing.await_consumer
    \* ReportCond (PacketRing.awake_consumer points at it)
    reportLocked,   \* mutex of ReportCond is held (by the reporter)
    reportWaiting,  \* the reporter waits on ReportCond
    \* traffic threads
    tpc,            \* position of each traffic thread
    quota,          \* data records the thread's test lasts (fixed per run)
    pend,           \* the record a traffic thread is reporting (packetID, < 0: final)
    sent,           \* records each traffic thread has put in its ring
    enqueued,       \* packetIDs each thread put in its ring, in order (history)
    \* reporter
    rpc,            \* position of the reporter thread
    rhead,          \* the head the reporter visits
    packet,         \* the reporter's copy of the record it dequeues
    linked,         \* the head is in the reporter's list
    finalSeen,      \* the reporter has dequeued the head's final record
    emittedFinal,   \* the reporter has emitted the flow's final summary
    received,       \* packetIDs the reporter dequeued, in order (history)
    \* process
    sInterupted,    \* main.cpp: int sInterupted
    sThread,        \* main.cpp: nthread_t sThread (0: thread_zeroid())
    exited,         \* sig_exit has ended the process
    nontermReleased, \* thread_release_nonterm was called: the threads that
                    \* do not end by themselves are no longer waited for
    \* MultiHeader of a parallel client group, and its client threads
    threads,        \* MultiHeader.threads: client threads of the group
    arrived,        \* client threads that have called BarrierClient
    startTime,      \* MultiHeader.startTime, the group's epoch (0: not yet set)
    bpc,            \* position of each client thread at the barrier
    epoch,          \* the start time each client thread left the barrier with
    now,            \* the clock
    \* interval and group-sum reports of the reporter
    report,         \* ReporterData of each flow
    hist,           \* the data records the reporter has handled, per flow
    closed,         \* flows whose final record the reporter has handled
    multiData,      \* MultiHeader.data: open SUM slots, by interval start
    multiReport,    \* MultiHeader.report: totals of the group's final rows
    out,            \* the rows emitted so far, in order
    \* test negotiation: a client's header and the settings derived from it
    client,         \* thread_Settings of the client that sends the header
    server,         \* thread_Settings of the server that receives it
    hdr,            \* the client_hdr
    derived,        \* *client, the result of Settings_GenerateClientSettings
    cpc,            \* how far the negotiation has got
    \* start of the process
    ext_gSettings,  \* the global thread_Settings of main
    infinitetime,   \* static flag of Settings.cpp: -t with a value <= 0
    environ,        \* the options given through environment variables
    argv,           \* the options given on the command line
    listener,       \* the settings Settings_GenerateListenerSettings returns
    ppc,            \* how far main has got
    exitStatus,     \* exit status of the process (-1 while it runs)
    started,        \* thread_start has been called
    \* launch of the client threads
    groupID,        \* main.cpp: int groupID
    groupCond,      \* main.cpp: Mutex groupCond (0: free, else its holder)
    multis,         \* the MultiHeaders InitMulti has created, in order
    ipc,            \* position of each caller of client_init
    cchain,         \* the runNow chain from each caller's settings
    cnext,          \* client_init's local `next` of each caller
    spawn           \* the client thread in client_spawn and its reverse thread

ringVars == <<producer, consumer, data, consumerdone, awaitLocked, awaitWaiting>>
condVars == <<reportLocked, reportWaiting>>
trafficVars == <<tpc, quota, pend, sent, enqueued>>
reporterVars == <<rpc, rhead, packet, linked, finalSeen, emittedFinal, received>>
sigVars == <<sInterupted, sThread, exited, nontermReleased>>
barrierVars == <<threads, arrived, startTime, bpc, epoch, now>>
intervalVars == <<report, hist, closed, multiData, multiReport, out>>
codecVars == <<client, server, hdr, derived, cpc>>
initVars == <<groupID, groupCond, multis, ipc, cchain, cnext>>
launchVars == <<initVars, spawn>>
mainVars == <<ext_gSettings, infinitetime, environ, argv, listener, ppc,
              exitStatus, started, launchVars>>
settingsVars == <<codecVars, mainVars>>
vars == <<ringVars, condVars, trafficVars, reporterVars, sigVars, barrierVars,
          intervalVars, settingsVars>>

\* ------------------------------------------------------------ packet ring
\* The slot after i, wrapping past the last slot.
NextSlot(i) == (i + 1) % RingSize

\* A full-condition that never holds: the producer never blocks.
RingFull_never(f) == FALSE

\* Full-condition of the ring: ((producer+1) mod N) == consumer.
RingFull(f) == NextSlot(producer[f]) = consumer[f]

\* Empty-condition of the ring: producer == consumer.
RingEmpty(f) == producer[f] = consumer[f]

\* Wrap-aware occupancy (producer - consumer) mod N.
Occupancy(f) == (producer[f] - consumer[f] + RingSize) % RingSize

\* No parallel group starts.
BarrierIdle ==
    /\ threads = 0
    /\ arrived = 0
    /\ startTime = 0
    /\ bpc = [i \in 1..MaxThreads |-> "none"]
    /\ epoch = [i \in 1..MaxThreads |-> 0]
    /\ now = 0

\* The state after construction: the heads of the flows in `active` are posted
\* (linked in the reporter's list) with empty rings, and their traffic threads
\* are about to run a test of q data records.
InitWith(active, q) ==
    /\ producer = [f \in Flows |-> 0]
    /\ consumer = [f \in Flows |-> 0]
    /\ data = [f \in Flows |-> [i \in Slots |-> 0]]
    /\ consumerdone = [f \in Flows |-> FALSE]
    /\ awaitLocked = [f \in Flows |-> FALSE]
    /\ awaitWaiting = [f \in Flows |-> FALSE]
    /\ reportLocked = FALSE
    /\ reportWaiting = FALSE
    /\ tpc = [f \in Flows |-> IF f \in active THEN "run" ELSE "none"]
    /\ quota = [f \in Flows |-> IF f \in active THEN q ELSE 0]
    /\ pend = [f \in Flows |-> 0]
    /\ sent = [f \in Flows |-> 0]
    /\ enqueued = [f \in Flows |-> <<>>]
    /\ rpc = "top"
    /\ rhead = 1
    /\ packet = 0
    /\ linked = [f \in Flows |-> f \in active]
    /\ finalSeen = [f \in Flows |-> FALSE]
    /\ emittedFinal = [f \in Flows |-> FALSE]
    /\ received = [f \in Flows |-> <<>>]
    /\ sInterupted = 0
    /\ sThread = 0
    /\ exited = FALSE
    /\ nontermReleased = FALSE

\* No interval report is under way.
IntervalIdle ==
    /\ report = [f \in Flows |-> 0]
    /\ hist = [f \in Flows |-> <<>>]
    /\ closed = [f \in Flows |-> FALSE]
    /\ multiData = <<>>
    /\ multiReport = 0
    /\ out = <<>>

\* No header is negotiated.
CodecIdle ==
    /\ client = 0
    /\ server = 0
    /\ hdr = 0
    /\ derived = 0
    /\ cpc = "none"

\* The callers of client_init.
Callers == {1, 2}

\* No group was created and no client thread was launched.
LaunchIdle ==
    /\ groupID = 0
    /\ groupCond = 0
    /\ multis = <<>>
    /\ ipc = [c \in Callers |-> "none"]
    /\ cchain = [c \in Callers |-> <<>>]
    /\ cnext = [c \in Callers |-> <<>>]
    /\ spawn = 0

\* main is not modelled.
ProcessIdle ==
    /\ ext_gSettings = 0
    /\ infinitetime = 0
    /\ environ = <<>>
    /\ argv = <<>>
    /\ listener = 0
    /\ ppc = "none"
    /\ exitStatus = -1
    /\ started = FALSE

MainIdle == LaunchIdle /\ ProcessIdle

SettingsIdle == CodecIdle /\ MainIdle

\* All flows run.
Init == InitWith(Flows, MaxRecords) /\ BarrierIdle /\ IntervalIdle /\ SettingsIdle

\* One flow runs, alone with the reporter.
InitRing ==
    InitWith({1}, RingRecords) /\ BarrierIdle /\ IntervalIdle /\ SettingsIdle

\* --------------------------------------------------------- traffic thread
\* Where a traffic thread goes once its record is in the ring: on after a data
\* record, to EndReport after the final record (CloseReport).
AfterEnqueue(f) == IF pend[f] < 0 THEN "end" ELSE "run"

\* ReportPacket: the thread has a data record to report.  It polls the
\* interrupt flag between I/Os and reports no more data once it is set.
ReportPacket(f) ==
    /\ ~exited
    /\ tpc[f] = "run"
    /\ sInterupted = 0
    /\ sent[f] < quota[f]
    /\ pend' = [pend EXCEPT ![f] = sent[f] + 1]
    /\ tpc' = [tpc EXCEPT ![f] = "enq"]
    /\ UNCHANGED <<quota, sent, enqueued, ringVars, condVars, reporterVars, sigVars, barrierVars, intervalVars, settingsVars>>

\* CloseReport: the thread reports its final record (a negative packetID) when
\* its test is over or the interrupt flag is set.
CloseReport(f) ==
    /\ ~exited
    /\ tpc[f] = "run"
    /\ (sent[f] = quota[f] \/ sInterupted # 0)
    /\ pend' = [pend EXCEPT ![f] = -(sent[f] + 1)]
    /\ tpc' = [tpc EXCEPT ![f] = "enq"]
    /\ UNCHANGED <<quota, sent, enqueued, ringVars, condVars, reporterVars, sigVars, barrierVars, intervalVars, settingsVars>>

\* enqueue, the test for space: taken with await_consumer's mutex; on a full
\* ring the thread keeps the mutex and goes on to wait.
EnqueueCheck(f) ==
    /\ ~exited
    /\ tpc[f] = "enq"
    /\ ~awaitLocked[f]
    /\ IF RingFull(f)
       THEN /\ awaitLocked' = [awaitLocked EXCEPT ![f] = TRUE]
            /\ tpc' = [tpc EXCEPT ![f] = "park"]
       ELSE /\ tpc' = [tpc EXCEPT ![f] = "write"]
            /\ UNCHANGED awaitLocked
    /\ UNCHANGED <<producer, consumer, data, consumerdone, awaitWaiting,
                   quota, pend, sent, enqueued, condVars, reporterVars, sigVars, barrierVars, intervalVars, settingsVars>>

\* enqueue on a full ring: wait on await_consumer (the wait releases the mutex).
EnqueueWait(f) ==
    /\ ~exited
    /\ tpc[f] = "park"
    /\ awaitLocked' = [awaitLocked EXCEPT ![f] = FALSE]
    /\ awaitWaiting' = [awaitWaiting EXCEPT ![f] = TRUE]
    /\ tpc' = [tpc EXCEPT ![f] = "parked"]
    /\ UNCHANGED <<producer, consumer, data, consumerdone,
                   quota, pend, sent, enqueued, condVars, reporterVars, sigVars, barrierVars, intervalVars, settingsVars>>

\* the consumer has signalled await_consumer: test for space again.
EnqueueResume(f) ==
    /\ ~exited
    /\ tpc[f] = "parked"
    /\ ~awaitWaiting[f]
    /\ tpc' = [tpc EXCEPT ![f] = "enq"]
    /\ UNCHANGED <<quota, pend, sent, enqueued, ringVars, condVars, reporterVars, sigVars, barrierVars, intervalVars, settingsVars>>

\* enqueue, the insert: the record is copied into the slot at producer.
EnqueueWrite(f) ==
    /\ ~exited
    /\ tpc[f] = "write"
    /\ data' = [data EXCEPT ![f][producer[f]] = pend[f]]
    /\ tpc' = [tpc EXCEPT ![f] = "publish"]
    /\ UNCHANGED <<producer, consumer, consumerdone, awaitLocked, awaitWaiting,
                   quota, pend, sent, enqueued, condVars, reporterVars, sigVars, barrierVars, intervalVars, settingsVars>>

\* enqueue, the single store that advances the producer cursor.
EnqueuePublish(f) ==
    /\ ~exited
    /\ tpc[f] = "publish"
    /\ producer' = [producer EXCEPT ![f] = NextSlot(producer[f])]
    /\ sent' = [sent EXCEPT ![f] = sent[f] + 1]
    /\ enqueued' = [enqueued EXCEPT ![f] = Append(enqueued[f], pend[f])]
    /\ tpc' = [tpc EXCEPT ![f] = "edge"]
    /\ UNCHANGED <<consumer, data, consumerdone, awaitLocked, awaitWaiting,
                   quota, pend, condVars, reporterVars, sigVars, barrierVars, intervalVars, settingsVars>>

\* The insert crossed the was-empty edge: the consumer cursor stands at the
\* slot just filled.
WasEmpty(f) == NextSlot(consumer[f]) = producer[f]

\* enqueue, after the insert: a signal is due if the ring was empty.
EnqueueEdge(f) ==
    /\ ~exited
    /\ tpc[f] = "edge"
    /\ tpc' = [tpc EXCEPT ![f] = IF WasEmpty(f) THEN "signal" ELSE AfterEnqueue(f)]
    /\ UNCHANGED <<quota, pend, sent, enqueued, ringVars, condVars, reporterVars, sigVars, barrierVars, intervalVars, settingsVars>>

\* A signal sent without ReportCond's mutex: it can fall between the
\* reporter's look at the rings and its wait.
EnqueueSignal_nolock(f) ==
    /\ ~exited
    /\ tpc[f] = "signal"
    /\ reportWaiting' = FALSE
    /\ tpc' = [tpc EXCEPT ![f] = AfterEnqueue(f)]
    /\ UNCHANGED <<reportLocked, quota, pend, sent, enqueued, ringVars, reporterVars, sigVars, barrierVars, intervalVars, settingsVars>>

\* enqueue, the signal on awake_consumer (ReportCond), sent with its mutex.
EnqueueSignal(f) ==
    /\ ~exited
    /\ tpc[f] = "signal"
    /\ ~reportLocked
    /\ reportWaiting' = FALSE
    /\ tpc' = [tpc EXCEPT ![f] = AfterEnqueue(f)]
    /\ UNCHANGED <<reportLocked, quota, pend, sent, enqueued, ringVars, reporterVars, sigVars, barrierVars, intervalVars, settingsVars>>

\* An EndReport that returns without waiting for consumerdone.
EndReport_nowait(f) ==
    /\ ~exited
    /\ tpc[f] = "end"
    /\ tpc' = [tpc EXCEPT ![f] = "free"]
    /\ UNCHANGED <<quota, pend, sent, enqueued, ringVars, condVars, reporterVars, sigVars, barrierVars, intervalVars, settingsVars>>

\* EndReport: the thread waits on await_consumer until the reporter has set
\* consumerdone.  The test is made with the mutex held.
EndReport(f) ==
    /\ ~exited
    /\ tpc[f] = "end"
    /\ ~awaitLocked[f]
    /\ IF consumerdone[f]
       THEN /\ tpc' = [tpc EXCEPT ![f] = "free"]
            /\ UNCHANGED awaitLocked
       ELSE /\ awaitLocked' = [awaitLocked EXCEPT ![f] = TRUE]
            /\ tpc' = [tpc EXCEPT ![f] = "endpark"]
    /\ UNCHANGED <<producer, consumer, data, consumerdone, awaitWaiting,
                   quota, pend, sent, enqueued, condVars, reporterVars, sigVars, barrierVars, intervalVars, settingsVars>>

\* EndReport, the wait on await_consumer.
EndReportWait(f) ==
    /\ ~exited
    /\ tpc[f] = "endpark"
    /\ awaitLocked' = [awaitLocked EXCEPT ![f] = FALSE]
    /\ awaitWaiting' = [awaitWaiting EXCEPT ![f] = TRUE]
    /\ tpc' = [tpc EXCEPT ![f] = "endparked"]
    /\ UNCHANGED <<producer, consumer, data, consumerdone,
                   quota, pend, sent, enqueued, condVars, reporterVars, sigVars, barrierVars, intervalVars, settingsVars>>

\* EndReport, woken: test consumerdone again.
EndReportResume(f) ==
    /\ ~exited
    /\ tpc[f] = "endparked"
    /\ ~awaitWaiting[f]
    /\ tpc' = [tpc EXCEPT ![f] = "end"]
    /\ UNCHANGED <<quota, pend, sent, enqueued, ringVars, condVars, reporterVars, sigVars, barrierVars, intervalVars, settingsVars>>

\* FreeReport: EndReport has returned; the thread releases its report and ends.
FreeReport(f) ==
    /\ ~exited
    /\ tpc[f] = "free"
    /\ tpc' = [tpc EXCEPT ![f] = "exit"]
    /\ UNCHANGED <<quota, pend, sent, enqueued, ringVars, condVars, reporterVars, sigVars, barrierVars, intervalVars, settingsVars>>

Traffic(f) ==
    \/ ReportPacket(f)
    \/ CloseReport(f)
    \/ EnqueueCheck(f)
    \/ EnqueueWait(f)
    \/ EnqueueResume(f)
    \/ EnqueueWrite(f)
    \/ EnqueuePublish(f)
    \/ EnqueueEdge(f)
    \/ EnqueueSignal(f)
    \/ EndReport(f)
    \/ EndReportWait(f)
    \/ EndReportResume(f)
    \/ FreeReport(f)

\* --------------------------------------------------------------- reporter
\* Every ring of a live head is observed empty and no head is ready to unlink.
NothingToDo ==
    \A h \in Flows : linked[h] => (RingEmpty(h) /\ ~finalSeen[h])

\* Top of the reporter loop.  With no head left the reporter ends.  Else it
\* takes ReportCond's mutex and looks at every ring: with nothing to do it
\* keeps the mutex and goes on to wait, else it starts a pass over the heads.
ReporterObserve ==
    /\ ~exited
    /\ rpc = "top"
    /\ ~reportLocked
    /\ IF \A h \in Flows : ~linked[h]
       THEN /\ rpc' = "exit"
            /\ UNCHANGED <<rhead, reportLocked>>
       ELSE IF NothingToDo
            THEN /\ reportLocked' = TRUE
                 /\ rpc' = "sleep"
                 /\ UNCHANGED rhead
            ELSE /\ rpc' = "drain"
                 /\ rhead' = 1
                 /\ UNCHANGED reportLocked
    /\ UNCHANGED <<reportWaiting, packet, linked, finalSeen, emittedFinal,
                   received, ringVars, trafficVars, sigVars, barrierVars, intervalVars, settingsVars>>

\* The reporter waits on ReportCond (the wait releases the mutex).
ReporterSleep ==
    /\ ~exited
    /\ rpc = "sleep"
    /\ reportLocked' = FALSE
    /\ reportWaiting' = TRUE
    /\ rpc' = "waiting"
    /\ UNCHANGED <<rhead, packet, linked, finalSeen, emittedFinal, received,
                   ringVars, trafficVars, sigVars, barrierVars, intervalVars, settingsVars>>

\* A producer has signalled ReportCond: back to the top of the loop.
ReporterWake ==
    /\ ~exited
    /\ rpc = "waiting"
    /\ ~reportWaiting
    /\ rpc' = "top"
    /\ UNCHANGED <<rhead, packet, linked, finalSeen, emittedFinal, received,
                   ringVars, condVars, trafficVars, sigVars, barrierVars, intervalVars, settingsVars>>

\* A dequeue that reads the newest slot, the one before the producer cursor.
ReadSlot_newest(h) == (producer[h] + RingSize - 1) % RingSize

\* The slot dequeue reads: the one at the consumer cursor.
ReadSlot(h) == consumer[h]

\* A pass that takes an empty ring for a finished flow without having seen
\* the final record.
ReporterDequeue_anyempty ==
    /\ ~exited
    /\ rpc = "drain"
    /\ IF rhead \notin Flows
       THEN /\ rpc' = "top"
            /\ UNCHANGED <<rhead, packet>>
       ELSE IF ~linked[rhead]
            THEN /\ rhead' = rhead + 1
                 /\ UNCHANGED <<rpc, packet>>
            ELSE IF ~RingEmpty(rhead)
                 THEN /\ packet' = data[rhead][ReadSlot(rhead)]
                      /\ rpc' = "advance"
                      /\ UNCHANGED rhead
                 ELSE /\ rpc' = "final"
                      /\ UNCHANGED <<rhead, packet>>
    /\ UNCHANGED <<linked, finalSeen, emittedFinal, received,
                   ringVars, condVars, trafficVars, sigVars, barrierVars, intervalVars, settingsVars>>

\* dequeue on the head the pass has reached: a record is copied out of the
\* ring if producer != consumer; an empty ring whose final record was seen
\* is ready for its final report; else the pass moves on.
ReporterDequeue ==
    /\ ~exited
    /\ rpc = "drain"
    /\ IF rhead \notin Flows
       THEN /\ rpc' = "top"
            /\ UNCHANGED <<rhead, packet>>
       ELSE IF ~linked[rhead]
            THEN /\ rhead' = rhead + 1
                 /\ UNCHANGED <<rpc, packet>>
            ELSE IF ~RingEmpty(rhead)
                 THEN /\ packet' = data[rhead][ReadSlot(rhead)]
                      /\ rpc' = "advance"
                      /\ UNCHANGED rhead
                 ELSE IF finalSeen[rhead]
                      THEN /\ rpc' = "final"
                           /\ UNCHANGED <<rhead, packet>>
                      ELSE /\ rhead' = rhead + 1
                           /\ UNCHANGED <<rpc, packet>>
    /\ UNCHANGED <<linked, finalSeen, emittedFinal, received,
                   ringVars, condVars, trafficVars, sigVars, barrierVars, intervalVars, settingsVars>>

\* dequeue, after the copy: the single store that advances the consumer
\* cursor; the record is handed to the packet handler.
ReporterAdvance ==
    /\ ~exited
    /\ rpc = "advance"
    /\ consumer' = [consumer EXCEPT ![rhead] = NextSlot(consumer[rhead])]
    /\ received' = [received EXCEPT ![rhead] = Append(received[rhead], packet)]
    /\ finalSeen' = [finalSeen EXCEPT ![rhead] = finalSeen[rhead] \/ packet < 0]
    /\ rpc' = "signal"
    /\ UNCHANGED <<rhead, packet, linked, emittedFinal, producer, data,
                   consumerdone, awaitLocked, awaitWaiting,
                   condVars, trafficVars, sigVars, barrierVars, intervalVars, settingsVars>>

\* The consumer signals await_consumer (with its mutex): there is space.
ReporterSignal ==
    /\ ~exited
    /\ rpc = "signal"
    /\ ~awaitLocked[rhead]
    /\ awaitWaiting' = [awaitWaiting EXCEPT ![rhead] = FALSE]
    /\ rpc' = "drain"
    /\ UNCHANGED <<rhead, packet, linked, finalSeen, emittedFinal, received,
                   producer, consumer, data, consumerdone, awaitLocked,
                   condVars, trafficVars, sigVars, barrierVars, intervalVars, settingsVars>>

\* The final record was dequeued and the ring is empty: the reporter emits
\* the flow's final report and updates the group's sum.
ReporterFinal ==
    /\ ~exited
    /\ rpc = "final"
    /\ emittedFinal' = [emittedFinal EXCEPT ![rhead] = TRUE]
    /\ rpc' = "done"
    /\ UNCHANGED <<rhead, packet, linked, finalSeen, received,
                   ringVars, condVars, trafficVars, sigVars, barrierVars, intervalVars, settingsVars>>

\* After the final report the reporter sets consumerdone, signals
\* await_consumer (with its mutex) and unlinks the head.
ReporterDone ==
    /\ ~exited
    /\ rpc = "done"
    /\ ~awaitLocked[rhead]
    /\ consumerdone' = [consumerdone EXCEPT ![rhead] = TRUE]
    /\ awaitWaiting' = [awaitWaiting EXCEPT ![rhead] = FALSE]
    /\ linked' = [linked EXCEPT ![rhead] = FALSE]
    /\ rhead' = rhead + 1
    /\ rpc' = "drain"
    /\ UNCHANGED <<packet, finalSeen, emittedFinal, received,
                   producer, consumer, data, awaitLocked,
                   condVars, trafficVars, sigVars, barrierVars, intervalVars, settingsVars>>

Reporter ==
    \/ ReporterObserve
    \/ ReporterSleep
    \/ ReporterWake
    \/ ReporterDequeue
    \/ ReporterAdvance
    \/ ReporterSignal
    \/ ReporterFinal
    \/ ReporterDone

\* ----------------------------------------------------------------- signals
\* A handler that calls sig_exit for any signal but the first SIGINT, whichever
\* thread handles it.
Sig_Interupt_anythread(t, inSigno) ==
    /\ ~exited
    /\ IF inSigno = SIGINT /\ sThread = 0
       THEN /\ sThread' = t
            /\ sInterupted' = inSigno
            /\ nontermReleased' = TRUE
            /\ UNCHANGED exited
       ELSE /\ exited' = TRUE
            /\ UNCHANGED <<sThread, sInterupted, nontermReleased>>
    /\ UNCHANGED <<ringVars, condVars, trafficVars, reporterVars, barrierVars, intervalVars, settingsVars>>

\* A handler that releases the non-terminating threads for SIGALRM as well.
Sig_Interupt_alarmreleases(t, inSigno) ==
    /\ ~exited
    /\ IF inSigno = SIGINT /\ sThread = 0
       THEN /\ sThread' = t
            /\ sInterupted' = inSigno
            /\ nontermReleased' = TRUE
            /\ UNCHANGED exited
       ELSE IF sThread = t
            THEN /\ exited' = TRUE
                 /\ UNCHANGED <<sThread, sInterupted, nontermReleased>>
            ELSE /\ sInterupted' = inSigno
                 /\ nontermReleased' = TRUE
                 /\ UNCHANGED <<sThread, exited>>
    /\ UNCHANGED <<ringVars, condVars, trafficVars, reporterVars, barrierVars, intervalVars, settingsVars>>

\* Sig_Interupt(inSigno) run by thread t.  The thread that handles the first
\* SIGINT is remembered in sThread; a later signal handled by that thread
\* calls sig_exit, which ends the process.  Every other delivery sets
\* sInterupted and, unless the signal is SIGALRM, calls
\* thread_release_nonterm.
Sig_Interupt(t, inSigno) ==
    /\ ~exited
    /\ IF inSigno = SIGINT /\ sThread = 0
       THEN /\ sThread' = t
            /\ sInterupted' = inSigno
            /\ nontermReleased' = TRUE
            /\ UNCHANGED exited
       ELSE IF sThread = t
            THEN /\ exited' = TRUE
                 /\ UNCHANGED <<sThread, sInterupted, nontermReleased>>
            ELSE /\ sInterupted' = inSigno
                 /\ nontermReleased' = (nontermReleased \/ inSigno # SIGALRM)
                 /\ UNCHANGED <<sThread, exited>>
    /\ UNCHANGED <<ringVars, condVars, trafficVars, reporterVars, barrierVars, intervalVars, settingsVars>>

Signal == \E t \in SigThreads, s \in Signals : Sig_Interupt(t, s)

\* ---------------------------------------------------------- group barrier
\* client_init creates the MultiHeader of a group of P = mThreads client
\* threads (the given settings and P - 1 copies); the clock has started.
InitBarrier ==
    /\ InitWith({}, 0)
    /\ IntervalIdle
    /\ SettingsIdle
    /\ threads \in 1..MaxThreads
    /\ arrived = 0
    /\ startTime = 0
    /\ bpc = [i \in 1..MaxThreads |-> IF i <= threads THEN "start" ELSE "none"]
    /\ epoch = [i \in 1..MaxThreads |-> 0]
    /\ now = 1

\* A barrier that opens one arrival early.
LastArriver_early == arrived + 2 >= threads

\* Whether the thread that arrives now is the last of the group.
LastArriver == arrived + 1 >= threads

\* BarrierClient called by client thread i, under the barrier's mutex.  With
\* one thread the barrier is a no-op: the thread goes on with its own start
\* time.  Else the thread is counted; the last arriver records the group's
\* start time and broadcasts, every other thread waits on the barrier.
BarrierClient(i) ==
    /\ bpc[i] = "start"
    /\ IF threads = 1
       THEN /\ bpc' = [bpc EXCEPT ![i] = "past"]
            /\ epoch' = [epoch EXCEPT ![i] = now]
            /\ UNCHANGED <<arrived, startTime>>
       ELSE /\ arrived' = arrived + 1
            /\ IF LastArriver
               THEN /\ startTime' = now
                    /\ bpc' = [j \in 1..MaxThreads |->
                                  IF j = i THEN "past"
                                  ELSE IF bpc[j] = "waiting" THEN "released"
                                  ELSE bpc[j]]
                    /\ epoch' = [epoch EXCEPT ![i] = now]
               ELSE /\ bpc' = [bpc EXCEPT ![i] = "waiting"]
                    /\ UNCHANGED <<startTime, epoch>>
    /\ UNCHANGED <<threads, now, ringVars, condVars, trafficVars, reporterVars, sigVars, intervalVars, settingsVars>>

\* A thread the broadcast released returns from BarrierClient and reads the
\* group's start time.
BarrierReturn(i) ==
    /\ bpc[i] = "released"
    /\ bpc' = [bpc EXCEPT ![i] = "past"]
    /\ epoch' = [epoch EXCEPT ![i] = startTime]
    /\ UNCHANGED <<threads, arrived, startTime, now,
                   ringVars, condVars, trafficVars, reporterVars, sigVars, intervalVars, settingsVars>>

\* Time passes.
Tick ==
    /\ now < MaxClock
    /\ now' = now + 1
    /\ UNCHANGED <<threads, arrived, startTime, bpc, epoch,
                   ringVars, condVars, trafficVars, reporterVars, sigVars, intervalVars, settingsVars>>

NextBarrier ==
    \/ \E i \in 1..MaxThreads : BarrierClient(i)
    \/ \E i \in 1..MaxThreads : BarrierReturn(i)
    \/ Tick

\* The client threads of one parallel group at their start barrier.
SpecBarrier == InitBarrier /\ [][NextBarrier]_vars

\* ------------------------------------------------------- interval reports
\* A struct timeval of u microseconds, as gettimeofday gives it.
Timeval(u) == [tv_sec |-> u \div rMillion, tv_usec |-> u % rMillion]

\* TimeDifference(left, right), here in microseconds instead of seconds.
TimeDifference(left, right) ==
    (left.tv_sec - right.tv_sec) * rMillion + (left.tv_usec - right.tv_usec)

\* A TimeAdd whose carry adds one second too many.
TimeAdd_carrytwo(left, right) ==
    LET usec == left.tv_usec + right.tv_usec
    IN  IF usec > rMillion
        THEN [tv_sec |-> left.tv_sec + 2 + right.tv_sec, tv_usec |-> usec - rMillion]
        ELSE [tv_sec |-> left.tv_sec + right.tv_sec, tv_usec |-> usec]

\* TimeAdd(left, right): the value left has afterwards.
TimeAdd(left, right) ==
    LET usec == left.tv_usec + right.tv_usec
    IN  IF usec > rMillion
        THEN [tv_sec |-> left.tv_sec + 1 + right.tv_sec, tv_usec |-> usec - rMillion]
        ELSE [tv_sec |-> left.tv_sec + right.tv_sec, tv_usec |-> usec]

\* Start times, interval lengths (-i), gaps between records in microseconds
\* and record lengths of the runs explored.
StartTimes == {Timeval(10 * rMillion), Timeval(10 * rMillion + 750000)}
IntervalTimes == {[tv_sec |-> 0, tv_usec |-> 500000], [tv_sec |-> 1, tv_usec |-> 0]}
Deltas == {250000, 1250000}
FinalDeltas == {0, 250000}
Lengths == {1, 2}

\* ReporterData of a flow that starts at st and reports every it.
NewReport(st, it) ==
    [startTime |-> st, packetTime |-> st, nextTime |-> TimeAdd(st, it),
     intervalTime |-> it, TotalLen |-> 0, lastTotal |-> 0, cntDatagrams |-> 0,
     info |-> [startTime |-> 0, endTime |-> 0, cntDatagrams |-> 0]]

\* The flows of one parallel group are posted with a common start time and
\* interval; nothing has been reported yet.
InitInterval ==
    /\ InitWith({}, 0)
    /\ SettingsIdle
    /\ threads = Cardinality(Flows)
    /\ arrived = 0
    /\ startTime = 0
    /\ bpc = [i \in 1..MaxThreads |-> "none"]
    /\ epoch = [i \in 1..MaxThreads |-> 0]
    /\ now = 0
    /\ \E st \in StartTimes, it \in IntervalTimes :
          report = [f \in Flows |-> NewReport(st, it)]
    /\ hist = [f \in Flows |-> <<>>]
    /\ closed = [f \in Flows |-> FALSE]
    /\ multiData = {}
    /\ multiReport = [startTime |-> 0, endTime |-> 0,
                      TotalLen |-> 0, cntDatagrams |-> 0, free |-> 0]
    /\ out = <<>>

\* Bytes of the current interval, were the window never reset.
IntervalBytes_cumulative(r) == r.TotalLen

\* Bytes of the current interval: what was counted since the last row.
IntervalBytes(r) == r.TotalLen - r.lastTotal

\* The row of flow f for the window that ends at endTime (microseconds since
\* the flow's start).
IntervalRow(r, f, endTime) ==
    [flow |-> f, kind |-> "interval",
     startTime |-> r.info.startTime, endTime |-> endTime,
     TotalLen |-> IntervalBytes(r), cntDatagrams |-> r.info.cntDatagrams]

\* The final row of flow f: its cumulative totals.
FinalRow(r, f) ==
    [flow |-> f, kind |-> "final",
     startTime |-> 0, endTime |-> TimeDifference(r.packetTime, r.startTime),
     TotalLen |-> r.TotalLen, cntDatagrams |-> r.cntDatagrams]

\* The SUM slot of the group that a row belongs to: the open slot with the
\* row's start time, or a fresh one.
SlotFor(slots, row) ==
    IF \E sl \in slots : sl.startTime = row.startTime
    THEN CHOOSE sl \in slots : sl.startTime = row.startTime
    ELSE [startTime |-> row.startTime, endTime |-> row.endTime,
          TotalLen |-> 0, cntDatagrams |-> 0, free |-> 0]

\* An accumulation that keeps only the totals of the last row.
Accumulate_overwrite(sl, row) ==
    [sl EXCEPT !.TotalLen = row.TotalLen,
               !.cntDatagrams = row.cntDatagrams,
               !.endTime = IF @ < row.endTime THEN row.endTime ELSE @,
               !.free = @ + 1]

\* A flow's row is added to the slot and the flow counted.
Accumulate(sl, row) ==
    [sl EXCEPT !.TotalLen = @ + row.TotalLen,
               !.cntDatagrams = @ + row.cntDatagrams,
               !.endTime = IF @ < row.endTime THEN row.endTime ELSE @,
               !.free = @ + 1]

\* A SUM row that does not wait for the other flows.
SumComplete_first(sl) == sl.free >= 1

\* The SUM row is due when every thread of the group has been counted.
SumComplete(sl) == sl.free = threads

\* The SUM row of a slot.
SumRow(sl, kind) ==
    [flow |-> 0, kind |-> kind, startTime |-> sl.startTime, endTime |-> sl.endTime,
     TotalLen |-> sl.TotalLen, cntDatagrams |-> sl.cntDatagrams]

\* The reporter emits an interval row of a flow and updates the group: the
\* row is added to its slot and, when the slot is complete, the SUM row is
\* emitted and the slot released.  st holds the flow's ReporterData (r), the
\* group's slots and the output.
EmitRow(st, row) ==
    LET sl == Accumulate(SlotFor(st.slots, row), row)
        others == {o \in st.slots : o.startTime # row.startTime}
    IN  IF SumComplete(sl)
        THEN [st EXCEPT !.out = Append(Append(@, row), SumRow(sl, "interval")),
                        !.slots = others]
        ELSE [st EXCEPT !.out = Append(@, row),
                        !.slots = others \cup {sl}]

\* The group's slots hold the intervals that are open.  What the reporter does
\* with a row when all NUM_MULTI_SLOTS slots are taken is not part of this
\* model: only runs in which the slots suffice are explored.
SlotsSuffice(st) == Cardinality(st.slots) <= NUM_MULTI_SLOTS

\* After a row the window is reset and the next boundary is one interval on.
NextInterval(r, endTime) ==
    [r EXCEPT !.lastTotal = r.TotalLen,
              !.info = [startTime |-> endTime, endTime |-> endTime, cntDatagrams |-> 0],
              !.nextTime = TimeAdd(r.nextTime, r.intervalTime)]

\* The record's time has reached the next boundary.
Crossed(r) == TimeDifference(r.packetTime, r.nextTime) >= 0

\* Every boundary the packet time has crossed gets its row, oldest first.
RECURSIVE CatchUp(_, _)
CatchUp(st, f) ==
    IF Crossed(st.r)
    THEN LET endTime == TimeDifference(st.r.nextTime, st.r.startTime)
             emitted == EmitRow(st, IntervalRow(st.r, f, endTime))
         IN  CatchUp([emitted EXCEPT !.r = NextInterval(st.r, endTime)], f)
    ELSE st

\* The time u microseconds after tv.
Later(tv, u) == Timeval(tv.tv_sec * rMillion + tv.tv_usec + u)

\* Data records handled so far, all flows together.
Handled == Len(hist[1]) + Len(hist[2])

\* The reporter handles a data record of flow f, stamped dt after the flow's
\* previous record and len bytes long: the rows of the boundaries crossed are
\* emitted, then the record is counted.
ReporterHandlePacket(f, dt, len) ==
    /\ ~closed[f]
    /\ Handled < MaxPackets
    /\ LET r0 == [report[f] EXCEPT !.packetTime = Later(@, dt)]
           st == CatchUp([r |-> r0, slots |-> multiData, out |-> out], f)
       IN  /\ SlotsSuffice(st)
           /\ report' = [report EXCEPT ![f] =
                            [st.r EXCEPT !.TotalLen = @ + len,
                                         !.cntDatagrams = @ + 1,
                                         !.info.cntDatagrams = @ + 1]]
           /\ multiData' = st.slots
           /\ out' = st.out
           /\ hist' = [hist EXCEPT ![f] =
                          Append(@, [time |-> TimeDifference(r0.packetTime, r0.startTime),
                                     len |-> len])]
    /\ UNCHANGED <<closed, multiReport,
                   ringVars, condVars, trafficVars, reporterVars, sigVars, barrierVars, settingsVars>>

\* The reporter handles the final record of flow f: the rows of the
\* boundaries crossed, the row of the last partial interval if it has bytes,
\* the flow's final row, and the group's final SUM row once every flow of the
\* group has had its final row.
ReporterHandleFinal(f, dt) ==
    /\ ~closed[f]
    /\ LET r0 == [report[f] EXCEPT !.packetTime = Later(@, dt)]
           caught == CatchUp([r |-> r0, slots |-> multiData, out |-> out], f)
           endTime == TimeDifference(r0.packetTime, r0.startTime)
           st == IF IntervalBytes(caught.r) > 0
                 THEN [EmitRow(caught, IntervalRow(caught.r, f, endTime))
                          EXCEPT !.r = [caught.r EXCEPT !.lastTotal = caught.r.TotalLen]]
                 ELSE caught
           final == FinalRow(st.r, f)
           total == Accumulate(multiReport, final)
       IN  /\ SlotsSuffice(st)
           /\ report' = [report EXCEPT ![f] = st.r]
           /\ multiData' = st.slots
           /\ multiReport' = total
           /\ out' = IF SumComplete(total)
                     THEN Append(Append(st.out, final), SumRow(total, "final"))
                     ELSE Append(st.out, final)
    /\ closed' = [closed EXCEPT ![f] = TRUE]
    /\ UNCHANGED <<hist,
                   ringVars, condVars, trafficVars, reporterVars, sigVars, barrierVars, settingsVars>>

NextReport ==
    \/ \E f \in Flows, dt \in Deltas, len \in Lengths : ReporterHandlePacket(f, dt, len)
    \/ \E f \in Flows, dt \in FinalDeltas : ReporterHandleFinal(f, dt)

\* The reporter handling the records of the flows of one parallel group, in
\* any order of the flows.
SpecInterval == InitInterval /\ [][NextReport]_vars

\* ------------------------------------------------------------- settings
\* A thread_Settings is a record; its flag words (flags, flags_extend) are
\* the set of the flags that are set, and isSet("F", s) is the macro isF(s).
isSet(f, s) == f \in s.flags
setFlag(s, f) == [s EXCEPT !.flags = @ \cup {f}]
unsetFlag(s, f) == [s EXCEPT !.flags = @ \ {f}]

\* Defaults of Settings.cpp.
kDefault_UDPRate == 1048576
kDefault_UDPBufLen == 1470
kDefault_UDPBufLenV6 == 1450
kDefault_TCPBufLen == 131072

\* An amount (mAmount, a 64-bit word) is the pair <<hi, lo>> of value
\* hi * 2^31 + lo with lo < 2^31; a 32-bit word of the header is the pair
\* <<bit 31, low 31 bits>>.
MaxLow == 2147483647
Amount(n) == <<0, n>>

\* htonl of a 64-bit value: its low 32 bits (the byte order of the wire is
\* undone by ntohl and is not modelled).
htonl(amount) == <<amount[1] % 2, amount[2]>>

\* ntohl of a header word, stored in a 64-bit field: zero-extended.
ntohl(word) == <<word[1], word[2]>>

\* The 32-bit two's complement negation, 2^32 - word.
Negate(word) ==
    IF word[2] = 0 THEN word
    ELSE <<1 - word[1], (MaxLow - word[2]) + 1>>

\* word & 0x7FFFFFFF
ClearSign(word) == <<0, word[2]>>

\* a + b on amounts, b < 2^31.
AddAmount(a, b) ==
    IF a[2] > MaxLow - b
    THEN <<a[1] + 1, (a[2] - (MaxLow - b)) - 1>>
    ELSE <<a[1], a[2] + b>>

\* a + a on amounts.
DoubleAmount(a) ==
    LET low == AddAmount(<<0, a[2]>>, a[2])
    IN <<(2 * a[1]) + low[1], low[2]>>

\* A 32-bit int field sent as a header word, and read back: the int whose
\* bits the word holds.
WordOf(n) == <<0, n>>
IntOf(word) == IF word[1] = 1 THEN (word[2] - MaxLow) - 1 ELSE word[2]

\* (unsigned short) of a header word.
UnsignedShort(word) == word[2] % 65536

\* Settings_Copy: a new object with the same fields, its report flag clear.
Settings_Copy(from) == unsetFlag(from, "Report")

\* The amount a header word decodes to, and the mode it selects: bit 31 set
\* means time mode and the amount is the negation of the sign-extended word.
DecodeAmount(s, word) ==
    LET a == ntohl(word) IN
    IF a[1] % 2 = 1
    THEN [setFlag(s, "ModeTime") EXCEPT !.mAmount = Negate(a)]
    ELSE [unsetFlag(s, "ModeTime") EXCEPT !.mAmount = a]

\* The rate and its units a receiver without -b takes from the header.
DecodeRate(s, h) ==
    IF isSet("BWSet", s) THEN s
    ELSE [s EXCEPT !.mUDPRate = ntohl(h.mRate),
                   !.mUDPRateUnits = IF "UNITS_PPS" \in h.extflags
                                     THEN "kRate_PPS" ELSE "kRate_BW"]

\* Settings_GenerateClientHdr: the header the client sends, written over the
\* buffer h; a field the code does not assign keeps what the buffer held.
HdrFlags(c) ==
    (IF isSet("PeerVerDetect", c) \/ (c.mMode # "kTest_Normal" /\ isSet("BWSet", c))
     THEN {"HEADER_EXTEND"} ELSE {})
    \cup {"HEADER_SEQNO64B"}
    \cup (IF c.mMode # "kTest_Normal" \/ isSet("Reverse", c)
          THEN {"HEADER_VERSION1"} ELSE {})
    \cup (IF c.mMode = "kTest_DualTest" THEN {"RUN_NOW"} ELSE {})
    \cup (IF isSet("UDP", c) /\ isSet("L2LengthCheck", c) THEN {"HEADER_UDPTESTS"} ELSE {})
    \cup (IF isSet("Reverse", c) \/ isSet("Bidir", c) THEN {"HEADER_EXTEND"} ELSE {})

HdrExtendFlags(c) ==
    (IF isSet("Reverse", c) THEN {"REVERSE"} ELSE {})
    \cup (IF isSet("Bidir", c) THEN {"BIDIR"} ELSE {})
    \cup (IF c.mUDPRateUnits = "kRate_PPS" THEN {"UNITS_PPS"} ELSE {})

Settings_GenerateClientHdr(c, h) ==
    LET flags == HdrFlags(c)
        v1 == "HEADER_VERSION1" \in flags
        ext == "HEADER_EXTEND" \in flags
    IN [flags |-> flags,
        extflags |-> IF ext THEN HdrExtendFlags(c) ELSE h.extflags,
        bufferlen |-> IF v1
                      THEN (IF isSet("BuflenSet", c) THEN WordOf(c.mBufLen)
                            ELSE WordOf(0))
                      ELSE h.bufferlen,
        mPort |-> IF v1
                  THEN (IF c.mListenPort # 0 THEN WordOf(c.mListenPort)
                        ELSE WordOf(c.mPort))
                  ELSE h.mPort,
        numThreads |-> IF v1 THEN WordOf(c.mThreads) ELSE h.numThreads,
        mAmount |-> IF v1
                    THEN (IF isSet("ModeTime", c) THEN Negate(htonl(c.mAmount))
                          ELSE ClearSign(htonl(c.mAmount)))
                    ELSE h.mAmount,
        mRate |-> IF ext /\ isSet("BWSet", c) THEN htonl(c.mUDPRate) ELSE h.mRate]

\* What the decoder does to the settings of a reverse or bidir flow.
FullDuplex(s, h) ==
    DecodeRate(DecodeAmount(unsetFlag(setFlag(s, "ServerReverse"), "Report"),
                            h.mAmount), h)

\* The branch of a version-1 header: a client for the dual or trade-off test.
VersionOne(srv, h) ==
    LET c0 == [setFlag(srv, "Compat") EXCEPT
                  !.mPort = UnsignedShort(ntohl(h.mPort)),
                  !.mThreads = 1,
                  !.mBufLen = IF h.bufferlen # WordOf(0)
                              THEN IntOf(ntohl(h.bufferlen)) ELSE @,
                  !.mMode = IF "RUN_NOW" \in h.flags
                            THEN "kTest_DualTest" ELSE "kTest_TradeOff",
                  !.mThreadMode = "kMode_Client"]
        c1 == DecodeAmount(c0, h.mAmount)
    IN IF "HEADER_EXTEND" \in h.flags /\ ~isSet("BWSet", srv)
       THEN DecodeRate(c1, h) ELSE c1

\* The decoder if it tested REVERSE before BIDIR.
Settings_GenerateClientSettings_reversefirst(srv, ptr, h) ==
    IF "HEADER_EXTEND" \in h.flags
    THEN IF "REVERSE" \in h.extflags
         THEN [server |-> FullDuplex(srv, h), client |-> <<>>]
         ELSE IF "BIDIR" \in h.extflags
              THEN [server |-> srv,
                    client |-> <<FullDuplex(setFlag(Settings_Copy(srv),
                                                    "Bidir"), h)>>]
              ELSE [server |-> srv, client |-> ptr]
    ELSE IF "HEADER_VERSION1" \in h.flags
         THEN [server |-> srv, client |-> <<VersionOne(srv, h)>>]
         ELSE [server |-> srv, client |-> <<>>]

\* The decoder if it compared the extend flags word with BIDIR and REVERSE
\* instead of masking it.
Settings_GenerateClientSettings_wholeword(srv, ptr, h) ==
    IF "HEADER_EXTEND" \in h.flags
    THEN IF h.extflags \ {"UNITS_PPS"} = {"BIDIR"}
         THEN [server |-> srv,
               client |-> <<FullDuplex(setFlag(Settings_Copy(srv), "Bidir"),
                                       h)>>]
         ELSE IF h.extflags \ {"UNITS_PPS"} = {"REVERSE"}
              THEN [server |-> FullDuplex(srv, h), client |-> <<>>]
              ELSE [server |-> srv, client |-> ptr]
    ELSE IF "HEADER_VERSION1" \in h.flags
         THEN [server |-> srv, client |-> <<VersionOne(srv, h)>>]
         ELSE [server |-> srv, client |-> <<>>]

\* Settings_GenerateClientSettings: what the listener derives from a header.
\* The result is the pair of the server's settings after the call and the
\* caller's client pointer after it (<<>> is NULL, <<s>> points at s).
Settings_GenerateClientSettings(srv, ptr, h) ==
    IF "HEADER_EXTEND" \in h.flags
    THEN IF "BIDIR" \in h.extflags
         THEN [server |-> srv,
               client |-> <<FullDuplex(setFlag(Settings_Copy(srv), "Bidir"),
                                       h)>>]
         ELSE IF "REVERSE" \in h.extflags
              THEN [server |-> FullDuplex(srv, h), client |-> <<>>]
              ELSE [server |-> srv, client |-> ptr]
    ELSE IF "HEADER_VERSION1" \in h.flags
         THEN [server |-> srv, client |-> <<VersionOne(srv, h)>>]
         ELSE [server |-> srv, client |-> <<>>]

\* ------------------------------------------------------ header exchange
\* The settings of a client after its options are parsed: the test mode
\* (-d, -r), the reverse and bidir flags (bidir sets both), the protocol, the
\* rate (the value of -b, else the UDP default, else the zero of
\* Settings_Initialize), the amount in time mode (-t) or byte mode (-n), the
\* buffer length (the value of -l, else the default), -P and -X.
TimeAmounts == {Amount(100), Amount(1000)}
ByteAmounts == {Amount(0), Amount(1000), <<1, 0>>}

Settings_Initialize ==
    [mThreadMode |-> "kMode_Unknown", mMode |-> "kTest_Normal",
     flags |-> {"ModeTime", "STDOUT"}, mAmount |-> Amount(1000),
     mInterval |-> 0, mPort |-> 5001, mListenPort |-> 0, mThreads |-> 0,
     mBufLen |-> kDefault_TCPBufLen, mUDPRate |-> Amount(0),
     mUDPRateUnits |-> "kRate_BW", mLocalhost |-> "", mHost |-> "",
     multihdr |-> 0]

\* In time mode a reversed client has added one second to its amount, after
\* doubling it for UDP (Settings_ModalOptions).
ClientAmounts(time, rev, proto) ==
    IF time = {} THEN ByteAmounts
    ELSE IF "Reverse" \notin rev THEN TimeAmounts
    ELSE IF "UDP" \in proto
    THEN {AddAmount(DoubleAmount(a), 100) : a \in TimeAmounts}
    ELSE {AddAmount(a, 100) : a \in TimeAmounts}

ClientOf(mode, rev, p, proto, bw, rate, time, amount, len, ver) ==
    [Settings_Initialize EXCEPT
        !.mThreadMode = "kMode_Client",
        !.mHost = "peer",
        !.mMode = mode,
        !.mThreads = p,
        !.flags = {"STDOUT"} \cup rev \cup proto \cup bw \cup time
                  \cup len \cup ver,
        !.mAmount = amount,
        !.mBufLen = IF len # {} THEN 8192
                    ELSE IF "UDP" \in proto THEN kDefault_UDPBufLen
                    ELSE kDefault_TCPBufLen,
        !.mUDPRate = IF bw # {} THEN rate
                     ELSE IF "UDP" \in proto THEN Amount(kDefault_UDPRate)
                     ELSE Amount(0),
        !.mUDPRateUnits = IF bw # {} /\ rate = Amount(5000000)
                             /\ "UDP" \in proto /\ p = 2
                          THEN "kRate_PPS" ELSE "kRate_BW"]

ClientSettings ==
    UNION { { ClientOf(mode, rev, p, proto, bw, rate, time, amount, len, ver) :
                amount \in ClientAmounts(time, rev, proto) } :
            mode \in {"kTest_Normal", "kTest_DualTest", "kTest_TradeOff"},
            rev \in {{}, {"Reverse"}, {"Reverse", "Bidir"}}, p \in {1, 2},
            proto \in {{}, {"UDP"}, {"UDP", "L2LengthCheck"}},
            bw \in {{}, {"BWSet"}},
            rate \in {Amount(5000000), Amount(20000000)},
            time \in {{}, {"ModeTime"}},
            len \in {{}, {"BuflenSet"}}, ver \in {{}, {"PeerVerDetect"}} }

\* The settings the listener hands to the decoder: a server with or without
\* -u and -b, in time mode, its report flag set.
ServerSettings ==
    { [Settings_Initialize EXCEPT
          !.mThreadMode = "kMode_Listener",
          !.flags = {"ModeTime", "STDOUT", "Report"} \cup proto \cup bw,
          !.mBufLen = IF "UDP" \in proto THEN kDefault_UDPBufLen
                      ELSE kDefault_TCPBufLen,
          !.mUDPRate = IF bw # {} THEN Amount(3000000)
                       ELSE IF "UDP" \in proto THEN Amount(kDefault_UDPRate)
                       ELSE Amount(0)] :
        proto \in {{}, {"UDP"}}, bw \in {{}, {"BWSet"}} }

\* What the header buffer holds before the client writes it: zeroes or the
\* bytes of an earlier use.
StaleWords == {WordOf(0), WordOf(777)}
StaleHdr(w) ==
    [flags |-> {}, extflags |-> {}, bufferlen |-> w, mPort |-> w,
     numThreads |-> w, mAmount |-> w, mRate |-> w]

\* The headers a peer of any version can send.
BaseFlags ==
    {"HEADER_VERSION1", "HEADER_EXTEND", "HEADER_SEQNO64B",
     "HEADER_UDPTESTS", "RUN_NOW"}
ExtendFlags == {"REVERSE", "BIDIR", "UNITS_PPS"}
\* A bit of a flags word that no macro of the program names.
UnknownFlags == {"unknown"}
PeerHdrs ==
    { [flags |-> f, extflags |-> e, bufferlen |-> WordOf(0),
       mPort |-> WordOf(5001), numThreads |-> WordOf(1),
       mAmount |-> a, mRate |-> WordOf(2000000)] :
        f \in SUBSET (BaseFlags \cup UnknownFlags),
        e \in SUBSET (ExtendFlags \cup UnknownFlags),
        a \in {WordOf(4096), Negate(WordOf(1000))} }

\* Either this program's client sends the header, or another peer does.
InitCodec ==
    /\ InitWith({}, 0)
    /\ BarrierIdle
    /\ IntervalIdle
    /\ MainIdle
    /\ server \in ServerSettings
    /\ \/ /\ cpc = "client"
          /\ \E c \in ClientSettings : client = <<c>>
          /\ \E w \in StaleWords : hdr = StaleHdr(w)
       \/ /\ cpc = "peer"
          /\ client = <<>>
          /\ hdr = StaleHdr(WordOf(0))
    /\ derived = <<>>

\* The client writes its header and sends it.
GenerateClientHdr ==
    /\ cpc = "client"
    /\ hdr' = Settings_GenerateClientHdr(client[1], hdr)
    /\ cpc' = "sent"
    /\ UNCHANGED <<client, server, derived, mainVars,
                   ringVars, condVars, trafficVars, reporterVars, sigVars,
                   barrierVars, intervalVars>>

\* Another peer sends a header.
PeerHdr(h) ==
    /\ cpc = "peer"
    /\ hdr' = h
    /\ cpc' = "sent"
    /\ UNCHANGED <<client, server, derived, mainVars,
                   ringVars, condVars, trafficVars, reporterVars, sigVars,
                   barrierVars, intervalVars>>

\* The listener derives the settings of the counter flow.
GenerateClientSettings ==
    /\ cpc = "sent"
    /\ LET r == Settings_GenerateClientSettings(server, derived, hdr)
       IN /\ server' = r.server
          /\ derived' = r.client
    /\ cpc' = "done"
    /\ UNCHANGED <<client, hdr, mainVars,
                   ringVars, condVars, trafficVars, reporterVars, sigVars,
                   barrierVars, intervalVars>>

NextCodec ==
    \/ GenerateClientHdr
    \/ cpc = "peer" /\ \E h \in PeerHdrs : PeerHdr(h)
    \/ GenerateClientSettings

SpecCodec == InitCodec /\ [][NextCodec]_vars

\* ---------------------------------------------------------- option parsing
\* The option arguments of the model and what the C library reads in them:
\* atoi, (int)(atof * 100.0) and strtof (the value in microseconds and the
\* text left at *end).
atoi(optarg) ==
    CASE optarg = "1" -> 1
      [] optarg = "2" -> 2
      [] optarg = "3" -> 3
      [] optarg = "5" -> 5
      [] optarg = "5002" -> 5002
      [] optarg = "6000" -> 6000
      [] OTHER -> 0

atof100(optarg) == IF optarg = "0.5" THEN 50 ELSE atoi(optarg) * 100

strtof(optarg) ==
    CASE optarg = "0" -> [value |-> 0, end |-> ""]
      [] optarg = "1" -> [value |-> 1000000, end |-> ""]
      [] optarg = "2" -> [value |-> 2000000, end |-> ""]
      [] optarg = "0.2" -> [value |-> 200000, end |-> ""]
      [] optarg = "0.2x" -> [value |-> 200000, end |-> "x"]
      [] OTHER -> [value |-> 0, end |-> optarg]

\* The text before a 'p' of a rate given in packets per second.
BeforeP(optarg) == IF optarg = "100pps" THEN "100" ELSE optarg

byte_atoi(optarg) ==
    CASE optarg = "4096" -> Amount(4096)
      [] optarg = "8192" -> Amount(8192)
      [] optarg = "5m" -> Amount(5000000)
      [] optarg = "100" -> Amount(100)
      [] OTHER -> Amount(0)

\* The smallest interval -i accepts, and the half second below which the
\* interval turns enhanced reports on, in microseconds.
SMALLEST_INTERVAL == 5000
HalfSecond == 500000

\* Settings_Interpret: one option applied to the settings st.s; st.inf is the
\* static infinitetime.
Settings_Interpret(option, optarg, st) ==
    LET s == st.s IN
    CASE option = "b" ->
           [st EXCEPT !.s =
               IF BeforeP(optarg) # optarg
               THEN [setFlag(s, "BWSet") EXCEPT
                        !.mUDPRateUnits = "kRate_PPS",
                        !.mUDPRate = byte_atoi(BeforeP(optarg))]
               ELSE [setFlag(s, "BWSet") EXCEPT
                        !.mUDPRateUnits = "kRate_BW",
                        !.mUDPRate = byte_atoi(optarg)]]
      [] option = "c" ->
           [st EXCEPT !.s =
               IF s.mThreadMode = "kMode_Unknown"
               THEN [s EXCEPT !.mHost = optarg,
                              !.mThreadMode = "kMode_Client",
                              !.mThreads = 1]
               ELSE [s EXCEPT !.mHost = optarg]]
      [] option = "d" ->
           IF s.mThreadMode # "kMode_Client" THEN st
           ELSE [st EXCEPT !.s.mMode = "kTest_DualTest"]
      [] option = "i" ->
           LET f == strtof(optarg) IN
           IF f.end # ""
           THEN [st EXCEPT !.s.mInterval = f.value]
           ELSE LET v == IF f.value < SMALLEST_INTERVAL
                         THEN SMALLEST_INTERVAL ELSE f.value
                IN [st EXCEPT !.s =
                       IF v < HalfSecond
                       THEN [setFlag(s, "Enhanced") EXCEPT !.mInterval = v]
                       ELSE [s EXCEPT !.mInterval = v]]
      [] option = "l" ->
           [st EXCEPT !.s = [setFlag(s, "BuflenSet") EXCEPT
                                !.mBufLen = IntOf(htonl(byte_atoi(optarg)))]]
      [] option = "n" ->
           [st EXCEPT !.s = [unsetFlag(s, "ModeTime") EXCEPT
                                !.mAmount = byte_atoi(optarg)]]
      [] option = "p" ->
           [st EXCEPT !.s.mPort = atoi(optarg)]
      [] option = "r" ->
           IF s.mThreadMode # "kMode_Client" THEN st
           ELSE [st EXCEPT !.s.mMode = "kTest_TradeOff"]
      [] option = "s" ->
           IF s.mThreadMode # "kMode_Unknown" THEN st
           ELSE [st EXCEPT !.s.mThreadMode = "kMode_Listener"]
      [] option = "t" ->
           IF atoi(optarg) > 0
           THEN [st EXCEPT !.s = [setFlag(s, "ModeTime") EXCEPT
                                     !.mAmount = Amount(atof100(optarg))]]
           ELSE [st EXCEPT !.s = setFlag(s, "ModeTime"), !.inf = 1]
      [] option = "u" -> [st EXCEPT !.s = setFlag(s, "UDP")]
      [] option = "B" ->
           IF s.mLocalhost = "" THEN [st EXCEPT !.s.mLocalhost = optarg]
           ELSE st
      [] option = "D" -> [st EXCEPT !.s = setFlag(s, "Daemon")]
      [] option = "R" -> [st EXCEPT !.s = setFlag(s, "Reverse")]
      [] option = "V" -> [st EXCEPT !.s = setFlag(s, "IPV6")]
      [] option = "connect-only" ->
           [st EXCEPT !.s = setFlag(setFlag(s, "ConnectOnly"), "Enhanced")]
      [] OTHER -> st

\* The options of a list applied in order.
RECURSIVE InterpretAll(_, _)
InterpretAll(options, st) ==
    IF options = <<>> THEN st
    ELSE InterpretAll(Tail(options),
                      Settings_Interpret(Head(options)[1], Head(options)[2],
                                         st))

\* Settings_ModalOptions: the defaults that depend on several options; exit
\* tells whether it ended the process with exit(1).
Settings_ModalOptions(st) ==
    LET s0 == st.s
        s1 == IF isSet("BuflenSet", s0) THEN s0
              ELSE [s0 EXCEPT !.mBufLen =
                       IF isSet("UDP", s0)
                       THEN (IF isSet("IPV6", s0) /\ s0.mThreadMode = "kMode_Client"
                             THEN kDefault_UDPBufLenV6
                             ELSE kDefault_UDPBufLen)
                       ELSE kDefault_TCPBufLen]
        s2 == IF ~isSet("BWSet", s1) /\ isSet("UDP", s1)
              THEN [s1 EXCEPT !.mUDPRate = Amount(kDefault_UDPRate)]
              ELSE s1
        limited == isSet("UDP", s2) \/ s2.mThreadMode # "kMode_Client"
        s3 == IF limited THEN unsetFlag(s2, "TripTime") ELSE s2
        exits == limited /\ isSet("ConnectOnly", s3)
        s4 == IF exits THEN unsetFlag(s3, "ConnectOnly")
              ELSE IF limited /\ isSet("ModeTime", s3) /\ isSet("Reverse", s3)
              THEN [s3 EXCEPT !.mAmount = DoubleAmount(@)]
              ELSE s3
        s5 == IF s4.mThreadMode = "kMode_Client" /\ isSet("ModeTime", s4)
                 /\ st.inf = 1
              THEN setFlag(unsetFlag(s4, "ModeTime"), "ModeInfinite")
              ELSE s4
        s6 == IF s5.mThreadMode = "kMode_Client" /\ isSet("ModeTime", s5)
                 /\ isSet("Reverse", s5)
              THEN [s5 EXCEPT !.mAmount = AddAmount(@, 100)]
              ELSE s5
    IN IF exits THEN [s |-> s4, exit |-> TRUE]
       ELSE [s |-> s6, exit |-> FALSE]

\* Settings_GenerateListenerSettings: the listener of a dual or trade-off
\* test (<<>> is NULL).
Settings_GenerateListenerSettings(c) ==
    IF ~isSet("Compat", c) /\ c.mMode \in {"kTest_DualTest", "kTest_TradeOff"}
    THEN <<[setFlag(unsetFlag(setFlag(c, "Compat"), "Daemon"), "Report")
               EXCEPT
               !.mPort = IF c.mListenPort # 0 THEN c.mListenPort
                         ELSE c.mPort,
               !.mAmount = IF c.mMode = "kTest_TradeOff"
                           THEN DoubleAmount(c.mAmount)
                           ELSE c.mAmount,
               !.mMode = "kTest_Normal",
               !.mThreadMode = "kMode_Listener",
               !.mBufLen = kDefault_UDPBufLen]>>
    ELSE <<>>

\* InitMulti: the MultiHeader of the group of agent's client threads.
InitMulti(agent, inID) == [groupID |-> inID, threads |-> agent.mThreads]

\* ------------------------------------------------------------------ main
\* The environment variables of the model in the order of env_options, and
\* the options of the command line, each with its argument.
EnvTable ==
    << <<"c", "hostE">>, <<"i", "2">>, <<"p", "6000">>, <<"s", "1">>,
       <<"t", "5">>, <<"B", "addrE">> >>

CmdOptions ==
    { <<"c", "hostC">>, <<"s", "">>, <<"B", "addrC">>, <<"i", "0">>,
      <<"i", "1">>, <<"i", "0.2">>, <<"i", "0.2x">>, <<"p", "5002">>,
      <<"t", "3">>, <<"n", "4096">>, <<"u", "">>, <<"V", "">>, <<"D", "">>,
      <<"d", "">>, <<"r", "">>, <<"R", "">>, <<"connect-only", "">>,
      <<"l", "8192">>, <<"b", "5m">>, <<"t", "0">>, <<"t", "0.5">> }

\* At most MaxEnv variables are set, at most MaxArgs options are given.
MaxEnv == 1
MaxArgs == 3

\* The entries of the table whose index is in I, in the table's order.
RECURSIVE Entries(_, _)
Entries(I, k) ==
    IF k > Len(EnvTable) THEN <<>>
    ELSE IF k \in I THEN <<EnvTable[k]>> \o Entries(I, k + 1)
    ELSE Entries(I, k + 1)

Environments ==
    { Entries(I, 1) : I \in { J \in SUBSET (1..Len(EnvTable)) :
                                 Cardinality(J) <= MaxEnv } }

CommandLines == UNION { [1..n -> CmdOptions] : n \in 0..MaxArgs }

\* The socket of a client thread after its connect: invalid or open.
Sockets == {-1, 3}

\* main has called Settings_Initialize.
InitMain ==
    /\ InitWith({}, 0)
    /\ BarrierIdle
    /\ IntervalIdle
    /\ CodecIdle
    /\ LaunchIdle
    /\ ext_gSettings = Settings_Initialize
    /\ infinitetime = 0
    /\ environ = <<>>
    /\ argv = <<>>
    /\ listener = <<>>
    /\ ppc = "init"
    /\ exitStatus = -1
    /\ started = FALSE

\* Settings_ParseEnvironment: every variable that is set, in table order.
ParseEnvironment(env) ==
    /\ ppc = "init"
    /\ LET st == InterpretAll(env, [s |-> ext_gSettings,
                                    inf |-> infinitetime])
       IN /\ ext_gSettings' = st.s
          /\ infinitetime' = st.inf
    /\ environ' = env
    /\ ppc' = "env"
    /\ UNCHANGED <<argv, listener, exitStatus, started, launchVars, codecVars,
                   ringVars, condVars, trafficVars, reporterVars, sigVars,
                   barrierVars, intervalVars>>

\* Settings_ParseCommandLine: every option in the order given, then
\* Settings_ModalOptions, which may end the process.
ParseCommandLine(args) ==
    /\ ppc = "env"
    /\ LET st == InterpretAll(args, [s |-> ext_gSettings,
                                     inf |-> infinitetime])
           m == Settings_ModalOptions(st)
       IN /\ ext_gSettings' = m.s
          /\ infinitetime' = st.inf
          /\ IF m.exit
             THEN ppc' = "exited" /\ exitStatus' = 1
             ELSE ppc' = "parsed" /\ exitStatus' = exitStatus
    /\ argv' = args
    /\ UNCHANGED <<environ, listener, started, launchVars, codecVars,
                   ringVars, condVars, trafficVars, reporterVars, sigVars,
                   barrierVars, intervalVars>>

\* main after the parse: it returns when no role was given or a client is to
\* be a daemon; else it prepares the client (client_init) and starts the
\* reporter thread, which launches the client or the listener.
Main ==
    /\ ppc = "parsed"
    /\ IF ext_gSettings.mThreadMode \notin {"kMode_Client", "kMode_Listener"}
       THEN /\ ppc' = "exited"
            /\ exitStatus' = 0
            /\ UNCHANGED <<ext_gSettings, listener, started, groupID, multis>>
       ELSE IF ext_gSettings.mThreadMode = "kMode_Client"
                 /\ isSet("Daemon", ext_gSettings)
       THEN /\ ppc' = "exited"
            /\ exitStatus' = 0
            /\ ext_gSettings' = unsetFlag(ext_gSettings, "Report")
            /\ UNCHANGED <<listener, started, groupID, multis>>
       ELSE IF ext_gSettings.mThreadMode = "kMode_Client"
       THEN /\ ext_gSettings' = [setFlag(ext_gSettings, "Report") EXCEPT
                                     !.multihdr = groupID - 1]
            /\ listener' = Settings_GenerateListenerSettings(
                               setFlag(ext_gSettings, "Report"))
            /\ groupID' = groupID - 1
            /\ multis' = Append(multis, InitMulti(ext_gSettings, groupID - 1))
            /\ started' = TRUE
            /\ ppc' = "running"
            /\ UNCHANGED exitStatus
       ELSE /\ ext_gSettings' = unsetFlag(ext_gSettings, "Report")
            /\ started' = TRUE
            /\ ppc' = "running"
            /\ UNCHANGED <<listener, exitStatus, groupID, multis>>
    /\ UNCHANGED <<groupCond, ipc, cchain, cnext, spawn>>
    /\ UNCHANGED <<infinitetime, environ, argv, codecVars,
                   ringVars, condVars, trafficVars, reporterVars, sigVars,
                   barrierVars, intervalVars>>

\* client_spawn in the client thread: a reverse test whose socket is not
\* open ends the process.
ClientSpawn(mSock) ==
    /\ ppc = "running"
    /\ ext_gSettings.mThreadMode = "kMode_Client"
    /\ IF isSet("Reverse", ext_gSettings) /\ ~(mSock > 0)
       THEN ppc' = "exited" /\ exitStatus' = 1
       ELSE ppc' = "ran" /\ exitStatus' = exitStatus
    /\ UNCHANGED <<ext_gSettings, infinitetime, environ, argv, listener,
                   started, launchVars, codecVars,
                   ringVars, condVars, trafficVars, reporterVars, sigVars,
                   barrierVars, intervalVars>>

\* thread_joinall returns and main returns 0.
JoinAll ==
    /\ \/ ppc = "ran"
       \/ ppc = "running" /\ ext_gSettings.mThreadMode = "kMode_Listener"
    /\ ppc' = "exited"
    /\ exitStatus' = 0
    /\ UNCHANGED <<ext_gSettings, infinitetime, environ, argv, listener,
                   started, launchVars, codecVars,
                   ringVars, condVars, trafficVars, reporterVars, sigVars,
                   barrierVars, intervalVars>>

NextMain ==
    \/ ppc = "init" /\ \E env \in Environments : ParseEnvironment(env)
    \/ ppc = "env" /\ \E args \in CommandLines : ParseCommandLine(args)
    \/ Main
    \/ ppc = "running" /\ \E mSock \in Sockets : ClientSpawn(mSock)
    \/ JoinAll

SpecMain == InitMain /\ [][NextMain]_vars

\* The threads without the signals.
Threads ==
    \/ \E f \in Flows : ReportPacket(f)
    \/ \E f \in Flows : CloseReport(f)
    \/ \E f \in Flows : EnqueueCheck(f)
    \/ \E f \in Flows : EnqueueWait(f)
    \/ \E f \in Flows : EnqueueResume(f)
    \/ \E f \in Flows : EnqueueWrite(f)
    \/ \E f \in Flows : EnqueuePublish(f)
    \/ \E f \in Flows : EnqueueEdge(f)
    \/ \E f \in Flows : EnqueueSignal(f)
    \/ \E f \in Flows : EndReport(f)
    \/ \E f \in Flows : EndReportWait(f)
    \/ \E f \in Flows : EndReportResume(f)
    \/ \E f \in Flows : FreeReport(f)
    \/ ReporterObserve
    \/ ReporterSleep
    \/ ReporterWake
    \/ ReporterDequeue
    \/ ReporterAdvance
    \/ ReporterSignal
    \/ ReporterFinal
    \/ ReporterDone

Next ==
    \/ Threads
    \/ Signal

\* ------------------------------------------------------------ client_init
\* The settings client_init is called with: a client of a normal, dual or
\* trade-off test, with or without -C, with -P 1 to MaxThreads.
LaunchClients ==
    { [(IF compat THEN setFlag(c, "Compat") ELSE c) EXCEPT !.multihdr = 0] :
        c \in { ClientOf(mode, {}, p, {}, {}, Amount(0), {"ModeTime"},
                         Amount(1000), {}, {}) :
                    mode \in {"kTest_Normal", "kTest_DualTest", "kTest_TradeOff"},
                    p \in 1..MaxThreads },
        compat \in BOOLEAN }

\* Two threads are about to call client_init, each with its own settings.
InitLaunch ==
    /\ InitWith({}, 0)
    /\ BarrierIdle
    /\ IntervalIdle
    /\ CodecIdle
    /\ ProcessIdle
    /\ groupID = 0
    /\ groupCond = 0
    /\ multis = <<>>
    /\ ipc = [c \in Callers |-> "start"]
    /\ cchain \in [Callers -> {<<c>> : c \in LaunchClients}]
    /\ cnext = [c \in Callers |-> <<>>]
    /\ spawn = 0

\* client_init up to the lock: the report flag of the given settings is set
\* and the listener of a dual or trade-off test is generated.
ClientInitStart(c) ==
    /\ ipc[c] = "start"
    /\ LET clients == setFlag(cchain[c][1], "Report")
       IN /\ cchain' = [cchain EXCEPT ![c] = <<clients>>]
          /\ cnext' = [cnext EXCEPT ![c] =
                           Settings_GenerateListenerSettings(clients)]
    /\ ipc' = [ipc EXCEPT ![c] = "lock"]
    /\ UNCHANGED <<groupID, groupCond, multis, spawn,
                   ext_gSettings, infinitetime, environ, argv, listener, ppc,
                   exitStatus, started, codecVars,
                   ringVars, condVars, trafficVars, reporterVars, sigVars,
                   barrierVars, intervalVars>>

\* A lock that lets every caller through.
Mutex_Lock_nolock(c) ==
    /\ ipc[c] = "lock"
    /\ ipc' = [ipc EXCEPT ![c] = "dec"]
    /\ UNCHANGED <<groupID, groupCond, multis, cchain, cnext, spawn,
                   ext_gSettings, infinitetime, environ, argv, listener, ppc,
                   exitStatus, started, codecVars,
                   ringVars, condVars, trafficVars, reporterVars, sigVars,
                   barrierVars, intervalVars>>

\* Mutex_Lock(&groupCond)
Mutex_Lock(c) ==
    /\ ipc[c] = "lock"
    /\ groupCond = 0
    /\ groupCond' = c
    /\ ipc' = [ipc EXCEPT ![c] = "dec"]
    /\ UNCHANGED <<groupID, multis, cchain, cnext, spawn,
                   ext_gSettings, infinitetime, environ, argv, listener, ppc,
                   exitStatus, started, codecVars,
                   ringVars, condVars, trafficVars, reporterVars, sigVars,
                   barrierVars, intervalVars>>

\* groupID--
GroupIDDecrement(c) ==
    /\ ipc[c] = "dec"
    /\ groupID' = groupID - 1
    /\ ipc' = [ipc EXCEPT ![c] = "multi"]
    /\ UNCHANGED <<groupCond, multis, cchain, cnext, spawn,
                   ext_gSettings, infinitetime, environ, argv, listener, ppc,
                   exitStatus, started, codecVars,
                   ringVars, condVars, trafficVars, reporterVars, sigVars,
                   barrierVars, intervalVars>>

\* clients->multihdr = InitMulti(clients, groupID): the header is known by
\* its group id.
ClientInitMulti(c) ==
    /\ ipc[c] = "multi"
    /\ multis' = Append(multis, InitMulti(cchain[c][1], groupID))
    /\ cchain' = [cchain EXCEPT ![c][1].multihdr = groupID]
    /\ ipc' = [ipc EXCEPT ![c] = "unlock"]
    /\ UNCHANGED <<groupID, groupCond, cnext, spawn,
                   ext_gSettings, infinitetime, environ, argv, listener, ppc,
                   exitStatus, started, codecVars,
                   ringVars, condVars, trafficVars, reporterVars, sigVars,
                   barrierVars, intervalVars>>

\* Mutex_Unlock(&groupCond)
Mutex_Unlock(c) ==
    /\ ipc[c] = "unlock"
    /\ groupCond' = 0
    /\ ipc' = [ipc EXCEPT ![c] = "chain"]
    /\ UNCHANGED <<groupID, multis, cchain, cnext, spawn,
                   ext_gSettings, infinitetime, environ, argv, listener, ppc,
                   exitStatus, started, codecVars,
                   ringVars, condVars, trafficVars, reporterVars, sigVars,
                   barrierVars, intervalVars>>

\* A loop that starts at 0 and so makes one copy too many.
RunNowChain_fromzero(clients, next) ==
    (IF next # <<>> THEN <<clients, next[1]>> ELSE <<clients>>)
    \o [i \in 1..clients.mThreads |-> Settings_Copy(clients)]

\* The runNow chain client_init builds from the given settings: the listener
\* if there is one, then a copy of the settings for each further thread
\* (the loop runs for i = 1 .. mThreads - 1).
RunNowChain(clients, next) ==
    (IF next # <<>> THEN <<clients, next[1]>> ELSE <<clients>>)
    \o [i \in 1..(clients.mThreads - 1) |-> Settings_Copy(clients)]

\* client_init after the lock: the chain is linked; `next` is left at the
\* last settings created.
ClientInitChain(c) ==
    /\ ipc[c] = "chain"
    /\ LET chain == RunNowChain(cchain[c][1], cnext[c])
       IN /\ cchain' = [cchain EXCEPT ![c] = chain]
          /\ cnext' = [cnext EXCEPT ![c] =
                           IF Len(chain) > 1 THEN <<chain[Len(chain)]>>
                           ELSE <<>>]
    /\ ipc' = [ipc EXCEPT ![c] = "done"]
    /\ UNCHANGED <<groupID, groupCond, multis, spawn,
                   ext_gSettings, infinitetime, environ, argv, listener, ppc,
                   exitStatus, started, codecVars,
                   ringVars, condVars, trafficVars, reporterVars, sigVars,
                   barrierVars, intervalVars>>

NextLaunch ==
    \E c \in Callers :
        \/ ClientInitStart(c)
        \/ Mutex_Lock(c)
        \/ GroupIDDecrement(c)
        \/ ClientInitMulti(c)
        \/ Mutex_Unlock(c)
        \/ ClientInitChain(c)

\* Two threads in client_init, in any interleaving.
SpecLaunch == InitLaunch /\ [][NextLaunch]_vars

\* ----------------------------------------------------------- client_spawn
\* The settings a client thread is launched with: a client of a normal,
\* reverse or bidir test, or the sender a listener launches for a peer's
\* reverse or bidir test (server reverse).
SpawnFlags ==
    {{}, {"Reverse"}, {"Reverse", "Bidir"}, {"ServerReverse"},
     {"Bidir", "ServerReverse"}}

\* The socket of the client after the connect in the constructor of Client.
SpawnSockets == Sockets \cup {0, 4}

\* A client thread is about to run client_spawn.  theClient is the Client
\* object, reverse_client the local pointer (<<>> is NULL), rthread the
\* thread started for it, started the number of reverse threads started, ran
\* the progress of Client::Run, traffic whether anything was sent.
InitSpawn ==
    /\ InitWith({}, 0)
    /\ BarrierIdle
    /\ IntervalIdle
    /\ CodecIdle
    /\ ProcessIdle
    /\ groupID = 0
    /\ groupCond = 0
    /\ multis = <<>>
    /\ ipc = [c \in Callers |-> "none"]
    /\ cchain = [c \in Callers |-> <<>>]
    /\ cnext = [c \in Callers |-> <<>>]
    /\ \E f \in SpawnFlags :
          spawn = [pc |-> "start",
                   thread |-> [flags |-> f, mThreadMode |-> "kMode_Client",
                               mSock |-> -1, mTID |-> 1],
                   theClient |-> "NULL", reverse_client |-> <<>>,
                   rthread |-> "none", freed |-> FALSE, nstarted |-> 0,
                   ran |-> "no", traffic |-> FALSE]

\* theClient = new Client(thread): the constructor connects the socket.
SpawnNewClient(mSock) ==
    /\ spawn.pc = "start"
    /\ spawn' = [spawn EXCEPT !.thread.mSock = mSock,
                              !.theClient = "new",
                              !.pc = "reverse"]
    /\ UNCHANGED <<exitStatus, ext_gSettings, infinitetime, environ, argv, listener, ppc,
                   started, initVars, codecVars,
                   ringVars, condVars, trafficVars, reporterVars, sigVars,
                   barrierVars, intervalVars>>

\* The reverse thread's settings: a copy on the same socket, in server mode.
ReverseClient(thread) ==
    [setFlag(Settings_Copy(thread), "ServerReverse") EXCEPT
        !.mTID = 0, !.mThreadMode = "kMode_Server"]

\* The reverse test: the settings are copied and the reverse thread is
\* started (thread_start stores its id in mTID); with a socket that is not
\* above 0 the process exits with status 1.
SpawnReverse ==
    /\ spawn.pc = "reverse"
    /\ IF isSet("Reverse", spawn.thread)
       THEN IF spawn.thread.mSock > 0
            THEN /\ spawn' = [spawn EXCEPT
                                 !.reverse_client =
                                     <<[ReverseClient(spawn.thread)
                                           EXCEPT !.mTID = 2]>>,
                                 !.rthread = "running",
                                 !.nstarted = @ + 1,
                                 !.pc = "initiate"]
                 /\ UNCHANGED exitStatus
            ELSE /\ spawn' = [spawn EXCEPT
                                 !.reverse_client =
                                     <<ReverseClient(spawn.thread)>>,
                                 !.pc = "exited"]
                 /\ exitStatus' = 1
       ELSE /\ spawn' = [spawn EXCEPT !.pc = "initiate"]
            /\ UNCHANGED exitStatus
    /\ UNCHANGED <<ext_gSettings, infinitetime, environ, argv, listener, ppc,
                   started, initVars, codecVars,
                   ringVars, condVars, trafficVars, reporterVars, sigVars,
                   barrierVars, intervalVars>>

\* InitiateServer, unless the thread is a server's reverse sender: the
\* client sends its header.
SpawnInitiateServer ==
    /\ spawn.pc = "initiate"
    /\ spawn' = [spawn EXCEPT
                    !.traffic = @ \/ ~isSet("ServerReverse", spawn.thread),
                    !.pc = "decide"]
    /\ UNCHANGED <<exitStatus, ext_gSettings, infinitetime, environ, argv, listener, ppc,
                   started, initVars, codecVars,
                   ringVars, condVars, trafficVars, reporterVars, sigVars,
                   barrierVars, intervalVars>>

\* A client thread that runs the test whatever its flags.
SpawnDecide_alwaysrun(joins) ==
    /\ spawn.pc = "decide"
    /\ joins
    /\ spawn' = [spawn EXCEPT !.ran = "running", !.traffic = TRUE,
                              !.pc = "run"]
    /\ UNCHANGED <<exitStatus, ext_gSettings, infinitetime, environ, argv, listener, ppc,
                   started, initVars, codecVars,
                   ringVars, condVars, trafficVars, reporterVars, sigVars,
                   barrierVars, intervalVars>>

\* The reverse-only test joins the reverse thread if its mTID is not zero;
\* every other test runs the client.  Once the reverse thread has ended its
\* settings are freed (by the run wrapper), and what the read of mTID gives
\* is open: joins is the outcome of the test.  A join of a thread that has
\* ended returns at once.
SpawnDecide(joins) ==
    /\ spawn.pc = "decide"
    /\ IF isSet("Reverse", spawn.thread) /\ ~isSet("Bidir", spawn.thread)
       THEN /\ spawn.freed \/ joins = (spawn.reverse_client[1].mTID # 0)
            /\ spawn' = [spawn EXCEPT !.pc = IF joins THEN "join" ELSE "delete"]
       ELSE /\ joins
            /\ spawn' = [spawn EXCEPT !.ran = "running", !.traffic = TRUE,
                                      !.pc = "run"]
    /\ UNCHANGED <<exitStatus, ext_gSettings, infinitetime, environ, argv, listener, ppc,
                   started, initVars, codecVars,
                   ringVars, condVars, trafficVars, reporterVars, sigVars,
                   barrierVars, intervalVars>>

\* pthread_join returns: the reverse thread has ended.
SpawnJoin ==
    /\ spawn.pc = "join"
    /\ spawn.rthread = "done"
    /\ spawn' = [spawn EXCEPT !.pc = "delete"]
    /\ UNCHANGED <<exitStatus, ext_gSettings, infinitetime, environ, argv, listener, ppc,
                   started, initVars, codecVars,
                   ringVars, condVars, trafficVars, reporterVars, sigVars,
                   barrierVars, intervalVars>>

\* Client::Run returns.
SpawnRun ==
    /\ spawn.pc = "run"
    /\ spawn' = [spawn EXCEPT !.ran = "done", !.pc = "delete"]
    /\ UNCHANGED <<exitStatus, ext_gSettings, infinitetime, environ, argv, listener, ppc,
                   started, initVars, codecVars,
                   ringVars, condVars, trafficVars, reporterVars, sigVars,
                   barrierVars, intervalVars>>

\* DELETE_PTR(theClient); client_spawn returns.
SpawnDelete ==
    /\ spawn.pc = "delete"
    /\ spawn' = [spawn EXCEPT !.theClient = "deleted", !.pc = "returned"]
    /\ UNCHANGED <<exitStatus, ext_gSettings, infinitetime, environ, argv, listener, ppc,
                   started, initVars, codecVars,
                   ringVars, condVars, trafficVars, reporterVars, sigVars,
                   barrierVars, intervalVars>>

\* The reverse thread runs the test on the socket as a server and ends; the
\* run wrapper frees its settings.
ReverseThread ==
    /\ spawn.pc # "exited"
    /\ spawn.rthread = "running"
    /\ spawn' = [spawn EXCEPT !.rthread = "done", !.freed = TRUE,
                              !.traffic = TRUE]
    /\ UNCHANGED <<exitStatus, ext_gSettings, infinitetime, environ, argv, listener, ppc,
                   started, initVars, codecVars,
                   ringVars, condVars, trafficVars, reporterVars, sigVars,
                   barrierVars, intervalVars>>

NextSpawn ==
    \/ \E mSock \in SpawnSockets : SpawnNewClient(mSock)
    \/ SpawnReverse
    \/ SpawnInitiateServer
    \/ \E joins \in BOOLEAN : SpawnDecide(joins)
    \/ SpawnJoin
    \/ SpawnRun
    \/ SpawnDelete
    \/ ReverseThread

\* A client thread in client_spawn and the reverse thread it starts.
SpecSpawn == InitSpawn /\ [][NextSpawn]_vars

\* The threads are scheduled fairly.
Fairness ==
    /\ \A f \in Flows : WF_vars(Traffic(f))
    /\ WF_vars(Reporter)

\* One flow, the reporter and the signals; signals may or may not arrive.
Spec == InitRing /\ [][Next]_vars /\ Fairness

\* All flows and the reporter, no signal.
SpecWake == Init /\ [][Threads]_vars /\ Fairness

\* One flow and the reporter, no signal.
SpecRing == InitRing /\ [][Threads]_vars

\* -------------------------------------------------------------- properties
\* The records in the ring of f: enqueued and not yet dequeued.
InRing(f) == Len(enqueued[f]) - Len(received[f])

\* C1: in every reachable state of every interleaving of the producer and the
\* consumer of a ring, the wrap-aware occupancy (producer - consumer) mod N is
\* the number of records enqueued and not yet dequeued and lies in 0..N-1; a
\* producer about to write a slot has found the ring not full; every record
\* enqueued and not yet dequeued is still in its slot (none overwritten, none
\* lost); and no record was dequeued twice.
C1_RingInvariant ==
    \A f \in Flows :
        /\ (producer[f] - consumer[f] + RingSize) % RingSize = InRing(f)
        /\ InRing(f) \in 0..(RingSize - 1)
        /\ tpc[f] \in {"write", "publish"} =>
              (producer[f] + 1) % RingSize # consumer[f]
        /\ \A i \in 1..InRing(f) :
              data[f][(consumer[f] + i - 1) % RingSize]
                  = enqueued[f][Len(received[f]) + i]
        /\ \A i, j \in 1..Len(received[f]) :
              received[f][i] = received[f][j] => i = j

\* C1 witness: the ring is full, its cursors have wrapped, and the producer
\* is parked on await_consumer with a record in hand.
C1_Witness ==
    /\ tpc[1] = "parked"
    /\ RingFull(1)
    /\ producer[1] < consumer[1]
    /\ Len(enqueued[1]) > RingSize

\* C2: the records the reporter has dequeued from a ring are a prefix of the
\* records the producer enqueued, in the same order.
C2_Fifo ==
    \A f \in Flows :
        /\ Len(received[f]) <= Len(enqueued[f])
        /\ received[f] = SubSeq(enqueued[f], 1, Len(received[f]))

\* C2 witness: the reporter is dequeuing while two records wait in the ring
\* in slots on both sides of the wrap-around.
C2_Witness ==
    /\ rpc = "advance"
    /\ producer[1] < consumer[1]
    /\ InRing(1) = 2

C4_EndAfterFinal ==
    \A f \in Flows :
        /\ tpc[f] \in {"free", "exit"} => consumerdone[f]
        /\ consumerdone[f] =>
              /\ emittedFinal[f]
              /\ finalSeen[f]
              /\ RingEmpty(f)
              /\ received[f] = enqueued[f]
              /\ received[f][Len(received[f])] < 0

\* C4 witness: EndReport returns after the thread has waited on
\* await_consumer, while the other flow is still running.
C4_Witness ==
    /\ tpc[1] = "free"
    /\ tpc[2] = "run"
    /\ emittedFinal[1]

\* The flows that run in this behaviour.
Running == {f \in Flows : quota[f] > 0}

\* Every thread has ended by itself.
AllEnded == rpc = "exit" /\ \A f \in Running : tpc[f] = "exit"

Group == 1..threads
Past == {i \in Group : bpc[i] = "past"}

\* C5: in a group of T > 1 threads no thread has returned from BarrierClient
\* before all T have called it; once the T-th has called it no thread is left
\* waiting; the group's start time was written by the last arriver before any
\* thread left, and every thread that left read that same epoch.  With T = 1
\* the caller never waits.
C5_Barrier ==
    /\ threads > 1 =>
          /\ \A i \in Group : bpc[i] \in {"past", "released"} =>
                /\ arrived = threads
                /\ startTime # 0
          /\ arrived = threads => \A i \in Group : bpc[i] # "waiting"
          /\ arrived = Cardinality({i \in Group : bpc[i] # "start"})
          /\ \A i \in Past : epoch[i] = startTime
    /\ threads = 1 =>
          /\ bpc[1] \in {"start", "past"}
          /\ arrived = 0

\* C5 witness: the three threads of a group arrived at different times, all
\* have left the barrier, and the clock has moved on since the last arrival.
C5_Witness ==
    /\ threads = 3
    /\ Past = Group
    /\ startTime = 2
    /\ now = 3
\* The interval rows and the final rows emitted for flow f, in order.
FlowRows(f) == SelectSeq(out, LAMBDA row : row.flow = f /\ row.kind = "interval")
FinalRows(f) == SelectSeq(out, LAMBDA row : row.flow = f /\ row.kind = "final")

\* Interval length of flow f and the time of its last record since its
\* start, in microseconds.
Step(f) == report[f].intervalTime.tv_sec * rMillion + report[f].intervalTime.tv_usec
LastPacket(f) ==
    (report[f].packetTime.tv_sec * rMillion + report[f].packetTime.tv_usec)
    - (report[f].startTime.tv_sec * rMillion + report[f].startTime.tv_usec)

\* Bytes of the records of h stamped in [lo, hi).
RECURSIVE BytesIn(_, _, _)
BytesIn(h, lo, hi) ==
    IF h = <<>> THEN 0
    ELSE (IF lo <= Head(h).time /\ Head(h).time < hi THEN Head(h).len ELSE 0)
         + BytesIn(Tail(h), lo, hi)

\* Totals of a sequence of rows.
RECURSIVE SumLen(_)
SumLen(rows) == IF rows = <<>> THEN 0 ELSE Head(rows).TotalLen + SumLen(Tail(rows))
RECURSIVE SumDatagrams(_)
SumDatagrams(rows) ==
    IF rows = <<>> THEN 0 ELSE Head(rows).cntDatagrams + SumDatagrams(Tail(rows))

\* C6: for every flow and every k with startTime + k*I <= lastPacketTime the
\* k-th interval row of the flow is the one row for interval k, covering
\* [(k-1)*I, k*I) and carrying exactly the bytes of the records stamped in
\* it (so an interval skipped by a record that crossed several boundaries is
\* zero-filled and the triggering record is counted after it); the rows of
\* a flow are in strictly increasing interval order, and beyond the
\* boundaries crossed there is at most the row of the last partial interval.
C6_IntervalRows ==
    \A f \in Flows :
        LET rows == FlowRows(f)
            crossed == LastPacket(f) \div Step(f)
        IN  /\ \A k \in 1..crossed :
                  /\ k <= Len(rows)
                  /\ rows[k].startTime = (k - 1) * Step(f)
                  /\ rows[k].endTime = k * Step(f)
                  /\ rows[k].TotalLen = BytesIn(hist[f], (k - 1) * Step(f), k * Step(f))
            /\ \A i, j \in DOMAIN rows : i < j => rows[i].startTime < rows[j].startTime
            /\ Len(rows) <= crossed + 1

\* C6 witness: a record of flow 1 crossed several boundaries: the first
\* interval has bytes, the second and third are zero-filled, and the bytes
\* of the triggering record are in the fourth.
C6_Witness ==
    LET rows == FlowRows(1)
    IN  /\ Len(rows) >= 4
        /\ rows[1].TotalLen > 0
        /\ rows[2].TotalLen = 0
        /\ rows[3].TotalLen = 0
        /\ rows[4].TotalLen > 0
        /\ rows[4].endTime = 4 * Step(1)

\* C7: the cumulative bytes of a flow's final row equal the sum of the bytes
\* of all its interval rows, the last partial interval included, and equal
\* the bytes of all its records: none is counted twice or not at all.
C7_FinalTotal ==
    \A f \in Flows :
        closed[f] =>
            /\ Len(FinalRows(f)) = 1
            /\ FinalRows(f)[1].TotalLen = SumLen(FlowRows(f))
            /\ FinalRows(f)[1].TotalLen = BytesIn(hist[f], 0, LastPacket(f) + 1)
            /\ FinalRows(f)[1].cntDatagrams = SumDatagrams(FlowRows(f))

\* C7 witness: flow 1 has closed after three records; its rows are two full
\* intervals with bytes and a partial last interval with bytes.
C7_Witness ==
    LET rows == FlowRows(1)
    IN  /\ closed[1]
        /\ Len(hist[1]) = 3
        /\ Len(rows) >= 3
        /\ \E i \in DOMAIN rows : i < Len(rows) /\ rows[i].TotalLen > 0
        /\ rows[Len(rows)].TotalLen > 0
        /\ rows[Len(rows)].endTime - rows[Len(rows)].startTime < Step(1)
\* The per-flow rows of the kind and interval start of the SUM row at
\* position p that were emitted before it.
RowsBefore(p) ==
    SelectSeq(SubSeq(out, 1, p - 1),
              LAMBDA row : /\ row.flow # 0
                           /\ row.kind = out[p].kind
                           /\ row.startTime = out[p].startTime)

Decoded ==
    IF "HEADER_EXTEND" \in hdr.flags
    THEN IF "BIDIR" \in hdr.extflags THEN derived
         ELSE IF "REVERSE" \in hdr.extflags THEN <<server>>
         ELSE <<>>
    ELSE IF "HEADER_VERSION1" \in hdr.flags THEN derived
    ELSE <<>>

\* The client's header carried its amount and the listener decoded it.
AmountExchanged ==
    /\ cpc = "done"
    /\ client # <<>>
    /\ "HEADER_VERSION1" \in hdr.flags
    /\ Decoded # <<>>

\* C11: the amount a client encodes in its header is the amount the listener
\* decodes, in the same mode: a time-mode amount decodes to time mode with
\* the same mAmount, a byte-mode amount to byte mode with the same mAmount.
C11_AmountRoundTrip ==
    AmountExchanged =>
        /\ isSet("ModeTime", Decoded[1]) = isSet("ModeTime", client[1])
        /\ Decoded[1].mAmount = client[1].mAmount

\* The time-mode half of C11.
C11_TimeRoundTrip ==
    (AmountExchanged /\ isSet("ModeTime", client[1])) =>
        /\ isSet("ModeTime", Decoded[1])
        /\ Decoded[1].mAmount = client[1].mAmount

\* The byte-mode half of C11 for the amounts below 2^31.
C11_SmallByteRoundTrip ==
    (AmountExchanged /\ ~isSet("ModeTime", client[1]) /\ client[1].mAmount[1] = 0) =>
        /\ ~isSet("ModeTime", Decoded[1])
        /\ Decoded[1].mAmount = client[1].mAmount

\* The port a client announces for the counter flow.
HdrPort(c) == IF c.mListenPort # 0 THEN c.mListenPort ELSE c.mPort

\* C12: what a client encodes in the defined fields of its header
\* (numThreads, mPort, bufferlen, mAmount, the test mode, mRate and its
\* units) is what the listener decodes into the settings of the counter flow.
C12_HdrRoundTrip ==
    (cpc = "done" /\ client # <<>> /\ "HEADER_VERSION1" \in hdr.flags) =>
        /\ Decoded # <<>>
        /\ Decoded[1].mThreads = client[1].mThreads
        /\ Decoded[1].mPort = HdrPort(client[1])
        /\ isSet("BuflenSet", client[1]) => Decoded[1].mBufLen = client[1].mBufLen
        /\ isSet("ModeTime", Decoded[1]) = isSet("ModeTime", client[1])
        /\ Decoded[1].mAmount = client[1].mAmount
        /\ client[1].mMode # "kTest_Normal" =>
               Decoded[1].mMode = client[1].mMode
        /\ "HEADER_EXTEND" \in hdr.flags =>
               /\ Decoded[1].mUDPRate = client[1].mUDPRate
               /\ Decoded[1].mUDPRateUnits = client[1].mUDPRateUnits

\* The fields of C12 that do come back, when a version-1 header without the
\* extension is decoded: the port, the buffer length, the test mode.
C12_PlainFields ==
    (cpc = "done" /\ client # <<>> /\ "HEADER_VERSION1" \in hdr.flags
        /\ "HEADER_EXTEND" \notin hdr.flags) =>
        /\ Decoded # <<>>
        /\ Decoded[1].mPort = HdrPort(client[1])
        /\ isSet("BuflenSet", client[1]) => Decoded[1].mBufLen = client[1].mBufLen
        /\ Decoded[1].mMode = client[1].mMode
        /\ Decoded[1].mThreads = 1

\* The test mode a version-1 header asks for.
RunNowMode(h) ==
    IF "RUN_NOW" \in h.flags THEN "kTest_DualTest" ELSE "kTest_TradeOff"

\* C13: from every header with HEADER_VERSION1, whatever its other flags, the
\* listener derives a counter-flow client, in mode DualTest when RUN_NOW is
\* set and TradeOff when it is clear.
C13_RunNow ==
    (cpc = "done" /\ "HEADER_VERSION1" \in hdr.flags) =>
        /\ derived # <<>>
        /\ derived[1].mThreadMode = "kMode_Client"
        /\ derived[1].mMode = RunNowMode(hdr)

\* C13 for the headers without HEADER_EXTEND.
C13_RunNowPlain ==
    (cpc = "done" /\ "HEADER_VERSION1" \in hdr.flags
        /\ "HEADER_EXTEND" \notin hdr.flags) =>
        /\ derived # <<>>
        /\ derived[1].mThreadMode = "kMode_Client"
        /\ derived[1].mMode = RunNowMode(hdr)

\* The header with its REVERSE bit cleared.
BidirAlone(h) == [h EXCEPT !.extflags = @ \ {"REVERSE"}]

\* C14: decoding a header whose extend flags hold both BIDIR and REVERSE does
\* what decoding it with BIDIR alone does: the listener gets a new copy of
\* the server's settings marked Bidir and ServerReverse, and the server's own
\* settings are left as they were.
C14_BidirWins ==
    [][(cpc = "sent" /\ cpc' = "done" /\ "HEADER_EXTEND" \in hdr.flags
          /\ {"BIDIR", "REVERSE"} \subseteq hdr.extflags) =>
        /\ server' = server
        /\ derived' = Settings_GenerateClientSettings(
                          server, derived, BidirAlone(hdr)).client
        /\ derived' # <<>>
        /\ isSet("Bidir", derived'[1])
        /\ isSet("ServerReverse", derived'[1])
        /\ ~isSet("Bidir", server')
        /\ ~isSet("ServerReverse", server')]_vars

C14_Witness ==
    /\ cpc = "done"
    /\ "HEADER_EXTEND" \in hdr.flags
    /\ {"BIDIR", "REVERSE"} \subseteq hdr.extflags
    /\ derived # <<>>
    /\ isSet("Bidir", derived[1])
    /\ isSet("ServerReverse", derived[1])
    /\ derived[1].mAmount # server.mAmount
    /\ isSet("Report", server)
    /\ ~isSet("ServerReverse", server)

\* The listener without -b decoded this client's reverse or bidir header.
RateExchanged ==
    /\ cpc = "done"
    /\ client # <<>>
    /\ "HEADER_EXTEND" \in hdr.flags
    /\ hdr.extflags \cap {"REVERSE", "BIDIR"} # {}
    /\ ~isSet("BWSet", server)

\* C15: when a client's header asks for a reverse or bidir flow and the
\* server has no -b, the counter flow's rate is the client's rate (its -b, or
\* the UDP default without -b), in the client's units.
C15_RateNegotiated ==
    RateExchanged =>
        /\ Decoded[1].mUDPRate = client[1].mUDPRate
        /\ Decoded[1].mUDPRateUnits = client[1].mUDPRateUnits

\* C15 for the clients that gave -b.
C15_RateWithB ==
    (RateExchanged /\ isSet("BWSet", client[1])) =>
        /\ Decoded[1].mUDPRate = client[1].mUDPRate
        /\ Decoded[1].mUDPRateUnits = client[1].mUDPRateUnits

\* C15 for the UDP clients that gave no -b.
C15_RateDefault ==
    (RateExchanged /\ isSet("UDP", client[1]) /\ ~isSet("BWSet", client[1])) =>
        Decoded[1].mUDPRate = Amount(kDefault_UDPRate)

\* The option letters of a list of options.
Given(options) == {options[k][1] : k \in 1..Len(options)}

\* The arguments the option has on the command line.
ArgsOf(letter) == {argv[k][2] : k \in {j \in 1..Len(argv) : argv[j][1] = letter}}

\* One of the letters is given in the environment and one on the command line.
Both(letters) ==
    /\ Given(environ) \cap letters # {}
    /\ Given(argv) \cap letters # {}

\* The settings the same command line yields when no variable is set.
CommandLineAlone ==
    Settings_ModalOptions(
        InterpretAll(argv, [s |-> Settings_Initialize, inf |-> 0])).s

\* C16: after the environment and then the command line are parsed, an option
\* given in both has the value the command line gives it: the role, the bind
\* address, the interval, the amount and the port.
C16_CommandLineWins ==
    ppc = "parsed" =>
        /\ Both({"s", "c"}) =>
               ext_gSettings.mThreadMode = CommandLineAlone.mThreadMode
        /\ Both({"B"}) =>
               ext_gSettings.mLocalhost = CommandLineAlone.mLocalhost
        /\ Both({"i"}) =>
               ext_gSettings.mInterval = CommandLineAlone.mInterval
        /\ Both({"t", "n"}) =>
               /\ ext_gSettings.mAmount = CommandLineAlone.mAmount
               /\ isSet("ModeTime", ext_gSettings) = isSet("ModeTime", CommandLineAlone)
        /\ Both({"p"}) =>
               ext_gSettings.mPort = CommandLineAlone.mPort

\* The part of C16 about the interval, the amount and the port, when every
\* -t of the command line has a value atoi reads as positive.
C16_ValuesWin ==
    (ppc = "parsed" /\ \A a \in ArgsOf("t") : atoi(a) > 0) =>
        /\ Both({"i"}) =>
               ext_gSettings.mInterval = CommandLineAlone.mInterval
        /\ Both({"t", "n"}) =>
               /\ ext_gSettings.mAmount = CommandLineAlone.mAmount
               /\ isSet("ModeTime", ext_gSettings) = isSet("ModeTime", CommandLineAlone)
        /\ Both({"p"}) =>
               ext_gSettings.mPort = CommandLineAlone.mPort

\* The part of C16 about the role.
C16_RoleWins ==
    (ppc = "parsed" /\ Both({"s", "c"})) =>
        ext_gSettings.mThreadMode = CommandLineAlone.mThreadMode

\* The part of C16 about the bind address.
C16_BindWins ==
    (ppc = "parsed" /\ Both({"B"})) =>
        ext_gSettings.mLocalhost = CommandLineAlone.mLocalhost

\* C17: after -i 0 is parsed the interval is 0, as it is when -i is not
\* given, so no interval report is due.
C17_IntervalZero ==
    (ppc = "parsed" /\ "i" \notin Given(environ) /\ ArgsOf("i") = {"0"}) =>
        ext_gSettings.mInterval = 0

\* Without -i the interval is 0.
C17_IntervalOmitted ==
    (ppc = "parsed" /\ "i" \notin Given(environ) /\ ArgsOf("i") = {}) =>
        ext_gSettings.mInterval = 0

\* What -i 0 leaves: the smallest interval, with enhanced reports.
C17_IntervalSmallest ==
    (ppc = "parsed" /\ "i" \notin Given(environ) /\ ArgsOf("i") = {"0"}) =>
        /\ ext_gSettings.mInterval = SMALLEST_INTERVAL
        /\ isSet("Enhanced", ext_gSettings)

\* C18: after the options are parsed, an interval above 0 and below half a
\* second comes with the enhanced flag set.
C18_SmallIntervalEnhanced ==
    (ppc = "parsed" /\ 0 < ext_gSettings.mInterval
        /\ ext_gSettings.mInterval < HalfSecond) =>
        isSet("Enhanced", ext_gSettings)

\* C18 when every argument of -i is a number and nothing else.
C18_NumbersEnhanced ==
    (ppc = "parsed" /\ 0 < ext_gSettings.mInterval
        /\ ext_gSettings.mInterval < HalfSecond
        /\ \A a \in ArgsOf("i") : strtof(a).end = "") =>
        isSet("Enhanced", ext_gSettings)

\* The default buffer length of the claim for a protocol and address family.
DefaultBufLen(s) ==
    IF isSet("UDP", s)
    THEN (IF isSet("IPV6", s) THEN kDefault_UDPBufLenV6 ELSE kDefault_UDPBufLen)
    ELSE kDefault_TCPBufLen

\* No -l was given.
NoLength == "l" \notin Given(environ) \cup Given(argv)

\* C19: without -l the buffer length after the parse is 1470 for UDP over
\* IPv4, 1450 for UDP over IPv6 and 128 KiB for TCP, for a client, for a
\* server and for the listener of a dual or trade-off test; with -u and
\* without -b the rate is 1 Mbit/s.
C19_Defaults ==
    /\ (ppc = "parsed" /\ NoLength) =>
           ext_gSettings.mBufLen = DefaultBufLen(ext_gSettings)
    /\ (ppc = "running" /\ NoLength /\ listener # <<>>) =>
           listener[1].mBufLen = DefaultBufLen(listener[1])
    /\ (ppc = "parsed" /\ isSet("UDP", ext_gSettings) /\ ~isSet("BWSet", ext_gSettings)) =>
           ext_gSettings.mUDPRate = Amount(kDefault_UDPRate)

\* C19 for the settings of a client, and the rate.
C19_ClientDefaults ==
    /\ (ppc = "parsed" /\ NoLength
           /\ ext_gSettings.mThreadMode = "kMode_Client") =>
           ext_gSettings.mBufLen = DefaultBufLen(ext_gSettings)
    /\ (ppc = "parsed" /\ isSet("UDP", ext_gSettings) /\ ~isSet("BWSet", ext_gSettings)) =>
           ext_gSettings.mUDPRate = Amount(kDefault_UDPRate)

\* C19 for the settings of a server.
C19_ServerDefaults ==
    (ppc = "parsed" /\ NoLength
        /\ ext_gSettings.mThreadMode = "kMode_Listener") =>
        ext_gSettings.mBufLen = DefaultBufLen(ext_gSettings)

\* C19 for the listener of a dual or trade-off test.
C19_ListenerDefaults ==
    (ppc = "running" /\ NoLength /\ listener # <<>>) =>
        listener[1].mBufLen = DefaultBufLen(listener[1])

\* What the code gives a server and a listener: 1470 whenever UDP (the
\* server) and always (the listener).
C19_ServerListenerBufLen ==
    /\ (ppc = "parsed" /\ NoLength /\ isSet("UDP", ext_gSettings)
           /\ ext_gSettings.mThreadMode = "kMode_Listener") =>
           ext_gSettings.mBufLen = kDefault_UDPBufLen
    /\ (ppc = "running" /\ listener # <<>>) =>
           listener[1].mBufLen = kDefault_UDPBufLen

\* The usage errors main and the parse detect: no role, a client as a
\* daemon, --connect-only with UDP or without the client role.
NoRole == ext_gSettings.mThreadMode \notin {"kMode_Client", "kMode_Listener"}
DaemonClient ==
    ext_gSettings.mThreadMode = "kMode_Client" /\ isSet("Daemon", ext_gSettings)
BadConnectOnly ==
    /\ "connect-only" \in Given(argv)
    /\ isSet("UDP", ext_gSettings) \/ ext_gSettings.mThreadMode # "kMode_Client"
UsageError == NoRole \/ DaemonClient \/ BadConnectOnly

\* C20: the process ends with status 1 on a usage error or a fatal setup
\* failure, with no thread started, and with status 0 only after a run.
C20_ExitStatus ==
    ppc = "exited" =>
        /\ UsageError => (exitStatus = 1 /\ ~started)
        /\ exitStatus = 0 => started
        /\ exitStatus = 1 => ~started

\* C20 for --connect-only with UDP or without the client role.
C20_ConnectOnlyExit ==
    (ppc = "exited" /\ BadConnectOnly) => (exitStatus = 1 /\ ~started)

\* What the code does for no role and for a client as a daemon: status 0.
C20_UsageReturnsZero ==
    (ppc = "exited" /\ ~BadConnectOnly /\ (NoRole \/ DaemonClient)) =>
        (exitStatus = 0 /\ ~started)

\* What the code does for a reverse test without a socket: status 1 from a
\* client thread, after the threads were started.
C20_ExitAfterStart ==
    (ppc = "exited" /\ exitStatus = 1 /\ ~BadConnectOnly) =>
        (started /\ isSet("Reverse", ext_gSettings)
            /\ ext_gSettings.mThreadMode = "kMode_Client")

\* The place of the last -t on the command line (0: none), and the command
\* line without it.
LastT ==
    LET at == {k \in 1..Len(argv) : argv[k][1] = "t"}
    IN IF at = {} THEN 0 ELSE CHOOSE k \in at : \A j \in at : j <= k

WithoutLastT == SubSeq(argv, 1, LastT - 1) \o SubSeq(argv, LastT + 1, Len(argv))

\* A client whose duration comes from the command line alone, without the
\* second that a reverse test adds.
DurationParsed ==
    /\ ppc = "parsed"
    /\ ext_gSettings.mThreadMode = "kMode_Client"
    /\ Given(environ) \cap {"t", "n"} = {}
    /\ "R" \notin Given(argv)
    /\ LastT > 0

\* C21: for a client the last -t decides the duration mode: with a value of
\* s > 0 seconds the settings are in time mode with mAmount = s * 100 and
\* not in infinite mode; with a value that is not positive they are in
\* infinite mode, not in time mode, and mAmount is what the other options
\* left.
C21_LastTimeDecides ==
    DurationParsed =>
        IF atof100(argv[LastT][2]) > 0
        THEN /\ isSet("ModeTime", ext_gSettings)
             /\ ~isSet("ModeInfinite", ext_gSettings)
             /\ ext_gSettings.mAmount = Amount(atof100(argv[LastT][2]))
        ELSE /\ ~isSet("ModeTime", ext_gSettings)
             /\ isSet("ModeInfinite", ext_gSettings)
             /\ ext_gSettings.mAmount =
                    InterpretAll(WithoutLastT,
                                 [s |-> Settings_Initialize,
                                  inf |-> 0]).s.mAmount

\* C21 for a command line with one -t, of a whole number, and no -n.
C21_OneWholeTime ==
    (DurationParsed /\ "n" \notin Given(argv)
        /\ Cardinality({k \in 1..Len(argv) : argv[k][1] = "t"}) = 1
        /\ argv[LastT][2] \in {"0", "3"}) =>
        IF argv[LastT][2] = "3"
        THEN /\ isSet("ModeTime", ext_gSettings)
             /\ ~isSet("ModeInfinite", ext_gSettings)
             /\ ext_gSettings.mAmount = Amount(300)
        ELSE /\ ~isSet("ModeTime", ext_gSettings)
             /\ isSet("ModeInfinite", ext_gSettings)
             /\ ext_gSettings.mAmount = Amount(1000)

\* What the code does once any -t was not positive as atoi reads it: a
\* client in time mode ends in infinite mode, whatever a later -t says.
C21_InfiniteSticks ==
    (ppc = "parsed" /\ ext_gSettings.mThreadMode = "kMode_Client"
        /\ Given(environ) = {}
        /\ \E a \in ArgsOf("t") : atoi(a) <= 0) =>
        /\ ~isSet("ModeTime", ext_gSettings)
        /\ isSet("ModeInfinite", ext_gSettings) = ("n" \notin
               Given(SubSeq(argv, LastT + 1, Len(argv))))

\* ------------------------------------------------ unknown header flag bits
\* Two headers that are equal except in the bits no macro names.
SameKnown(h1, h2) ==
    /\ h1.flags \ UnknownFlags = h2.flags \ UnknownFlags
    /\ h1.extflags \ UnknownFlags = h2.extflags \ UnknownFlags
    /\ [h1 EXCEPT !.flags = {}, !.extflags = {}]
         = [h2 EXCEPT !.flags = {}, !.extflags = {}]

\* C22: what the listener derives depends only on the known flag bits: every
\* header equal to the received one except in unknown base or extend flag
\* bits derives the same counter-flow settings and the same server settings;
\* a header with neither HEADER_EXTEND nor HEADER_VERSION1 derives no counter
\* flow (client NULL) and leaves the server settings unchanged.
C22_KnownBitsOnly ==
    [][GenerateClientSettings =>
         /\ \A h2 \in PeerHdrs :
               SameKnown(hdr, h2) =>
                   Settings_GenerateClientSettings(server, derived, h2)
                     = [server |-> server', client |-> derived']
         /\ (hdr.flags \cap {"HEADER_EXTEND", "HEADER_VERSION1"} = {}
               => derived' = <<>> /\ server' = server)]_vars

\* A header with unknown bits in both words and BIDIR set was decoded into a
\* counter flow, and one with neither EXTEND nor VERSION1 into none.
C22_Witness ==
    /\ cpc = "done"
    /\ UnknownFlags \subseteq hdr.flags
    /\ UnknownFlags \subseteq hdr.extflags
    /\ "HEADER_EXTEND" \in hdr.flags
    /\ "BIDIR" \in hdr.extflags
    /\ derived # <<>>
    /\ isSet("Bidir", derived[1])

\* ------------------------------------------------- release of a report
\* FreeReport has released the head of flow f and its ring.
Released(f) == tpc[f] = "exit"

\* The reporter is at a step that reads or writes the head or ring of flow f.
ReporterTouches(f) ==
    /\ rhead = f
    /\ rpc \in {"advance", "signal", "final", "done"}

\* With FreeReport as the only release: a head is released only with
\* consumerdone set, its ring empty and the head unlinked, and the reporter
\* touches neither afterwards.
ReleasedAfterDone ==
    \A f \in Flows :
        Released(f) =>
            /\ consumerdone[f]
            /\ RingEmpty(f)
            /\ emittedFinal[f]
            /\ ~linked[f]
            /\ ~ReporterTouches(f)

\* ------------------------------------------------------ life of a head
\* The state of the head of flow f in the reporter's state machine: Freed
\* once unlinked, Drained once the reporter has found the ring empty after
\* the final record, Closing once the final record was dequeued, Running
\* once a record was dequeued, Attached before.
HeadState(f) ==
    IF ~linked[f] THEN "Freed"
    ELSE IF rhead = f /\ rpc \in {"final", "done"} THEN "Drained"
    ELSE IF finalSeen[f] THEN "Closing"
    ELSE IF received[f] # <<>> THEN "Running"
    ELSE "Attached"

Rank(state) ==
    CASE state = "Attached" -> 0
      [] state = "Running" -> 1
      [] state = "Closing" -> 2
      [] state = "Drained" -> 3
      [] state = "Freed" -> 4

\* What has happened before a head is in its state.
Entered(f) ==
    /\ Rank(HeadState(f)) >= 2 =>
          received[f] # <<>> /\ received[f][Len(received[f])] < 0
    /\ Rank(HeadState(f)) >= 3 => finalSeen[f] /\ RingEmpty(f)
    /\ HeadState(f) = "Freed" => emittedFinal[f] /\ consumerdone[f]

\* The heads that were posted to the reporter.
Posted == {f \in Flows : tpc[f] # "none"}

\* The step copies a record of flow f out of the ring or hands it to the
\* packet handler.
Processing(f) ==
    \/ received[f]' # received[f]
    \/ rpc = "drain" /\ rpc' = "advance" /\ rhead' = f

C24_OneStateAtATime ==
    [][\A f \in Posted :
          Rank(HeadState(f))' \in {Rank(HeadState(f)), Rank(HeadState(f)) + 1}]_vars

\* --------------------------------------------------- UDP loss accounting
\* The ids a datagram can carry, and the counters of a UDP receiver's
\* ReporterData before its first datagram.
PacketIDs == 0..MaxPacketID
NewDatagramReport ==
    [cntError |-> 0, cntOutofOrder |-> 0, cntDatagrams |-> 0, PacketID |-> 0]

\* An accounting whose gap counts the datagram that arrived as lost too.
CountDatagram_gapplusone(r, id) ==
    LET counted == [r EXCEPT !.cntDatagrams = @ + 1,
                             !.PacketID = IF id > @ THEN id ELSE @]
    IN  IF id < r.PacketID + 1
        THEN [counted EXCEPT !.cntOutofOrder = @ + 1]
        ELSE IF id > r.PacketID + 1
             THEN [counted EXCEPT !.cntError = @ + (id - r.PacketID)]
             ELSE counted

\* The reporter counts a datagram with the given id: it is compared with
\* PacketID + 1, the id after the last one; PacketID never decreases.
CountDatagram(r, id) ==
    LET counted == [r EXCEPT !.cntDatagrams = @ + 1,
                             !.PacketID = IF id > @ THEN id ELSE @]
    IN  IF id < r.PacketID + 1
        THEN [counted EXCEPT !.cntOutofOrder = @ + 1]
        ELSE IF id > r.PacketID + 1
             THEN [counted EXCEPT !.cntError = @ + (id - (r.PacketID + 1))]
             ELSE counted

\* A UDP receiver's flow is posted; no datagram has arrived.
InitDatagram ==
    /\ InitWith({}, 0)
    /\ BarrierIdle
    /\ SettingsIdle
    /\ report = [f \in Flows |-> NewDatagramReport]
    /\ hist = [f \in Flows |-> <<>>]
    /\ closed = [f \in Flows |-> FALSE]
    /\ multiData = <<>>
    /\ multiReport = 0
    /\ out = <<>>

\* The reporter handles a datagram of flow 1 that carries the given id.
ReporterHandleDatagram(id) ==
    /\ Len(hist[1]) < MaxDatagrams
    /\ report' = [report EXCEPT ![1] = CountDatagram(@, id)]
    /\ hist' = [hist EXCEPT ![1] = Append(@, id)]
    /\ UNCHANGED <<closed, multiData, multiReport, out,
                   ringVars, condVars, trafficVars, reporterVars, sigVars, barrierVars, settingsVars>>

NextDatagram == \E id \in PacketIDs : ReporterHandleDatagram(id)

\* A UDP receiver's reporter counting the datagrams of one flow, whatever
\* the network lost or reordered.
SpecDatagram == InitDatagram /\ [][NextDatagram]_vars

\* The ids received so far, the first and the largest of them.
Ids == hist[1]
FirstID == Ids[1]
MaxID == CHOOSE m \in PacketIDs :
             /\ \E k \in 1..Len(Ids) : Ids[k] = m
             /\ \A k \in 1..Len(Ids) : Ids[k] <= m

\* What the step that handles a datagram does to the counters.
CountedAs(id) ==
    LET r == report[1]
        expected == r.PacketID + 1
    IN  /\ id < expected =>
              /\ report'[1].cntOutofOrder = r.cntOutofOrder + 1
              /\ report'[1].cntError = r.cntError
        /\ id > expected =>
              /\ report'[1].cntError = r.cntError + (id - expected)
              /\ report'[1].cntOutofOrder = r.cntOutofOrder
        /\ id = expected =>
              /\ report'[1].cntError = r.cntError
              /\ report'[1].cntOutofOrder = r.cntOutofOrder

Stepper == CHOOSE c \in Callers : ipc'[c] # ipc[c]

\* The group id a call of client_init has got.
GroupOf(c) == cchain[c][1].multihdr

ClientsIn(c) ==
    {k \in 1..Len(cchain[c]) : cchain[c][k].mThreadMode = "kMode_Client"}

\* The test of caller c needs a listener on the client's side.
NeedsListener(c) ==
    /\ cchain[c][1].mMode \in {"kTest_DualTest", "kTest_TradeOff"}
    /\ ~isSet("Compat", cchain[c][1])

\* C27: after client_init with mThreads = P >= 1 the runNow chain from the
\* given settings holds exactly P client settings, the original and P - 1
\* copies, with one listener settings directly after the original exactly
\* when the mode is DualTest or TradeOff and compatibility mode is off; all
\* P client settings reference the same MultiHeader; only the original and
\* the listener have the report flag set.
C27_RunNowChain ==
    \A c \in Callers :
        ipc[c] = "done" =>
            LET chain == cchain[c]
                P == chain[1].mThreads
            IN  /\ 1 \in ClientsIn(c)
                /\ Cardinality(ClientsIn(c)) = P
                /\ \A k \in ClientsIn(c) \ {1} :
                      chain[k] = Settings_Copy(chain[1])
                /\ IF NeedsListener(c)
                   THEN /\ Len(chain) = P + 1
                        /\ chain[2].mThreadMode = "kMode_Listener"
                   ELSE Len(chain) = P
                /\ \A k \in ClientsIn(c) :
                      /\ chain[k].multihdr = chain[1].multihdr
                      /\ chain[k].multihdr # 0
                /\ \A k \in 1..Len(chain) :
                      isSet("Report", chain[k])
                        <=> (k = 1 \/ (k = 2 /\ NeedsListener(c)))

\* A dual test with -P MaxThreads has its chain: the original, the listener
\* and the copies.
C27_Witness ==
    /\ ipc[1] = "done"
    /\ cchain[1][1].mMode = "kTest_DualTest"
    /\ cchain[1][1].mThreads = MaxThreads
    /\ Len(cchain[1]) = MaxThreads + 1
    /\ cchain[1][2].mThreadMode = "kMode_Listener"

\* --------------------------------------------------------- reverse test
ReverseOnly == isSet("Reverse", spawn.thread) /\ ~isSet("Bidir", spawn.thread)
At(pcs) == spawn.pc \in pcs
AfterReverse == At({"initiate", "decide", "join", "run", "delete", "returned"})

C28_RunWhileReverse ==
    /\ isSet("Bidir", spawn.thread)
    /\ spawn.ran = "running"
    /\ spawn.rthread = "running"

\* A reverse test whose socket is not open has ended the process.
C28_Exited ==
    /\ At({"exited"})
    /\ exitStatus = 1
    /\ spawn.thread.mSock = 0
    /\ ~spawn.traffic

\* The delivery of signal s to thread t is the first SIGINT: no thread is
\* recorded in sThread yet.
FirstSigint(s) == s = SIGINT /\ sThread = 0

C29_Exited ==
    /\ exited
    /\ sThread = 1
    /\ sInterupted = SIGTERM
    /\ nontermReleased

\* A timestamp whose tv_usec is within 0 .. 999999.
Normalized(tv) == tv.tv_usec \in 0..(rMillion - 1)

\* The boundary of flow f is a whole number of intervals after its start.
ExactSum(f) ==
    LET r == report[f]
        elapsed == TimeDifference(r.nextTime, r.startTime)
        interval == TimeDifference(r.intervalTime, Timeval(0))
    IN  elapsed > 0 /\ elapsed % interval = 0

\* C30: with a normalized start time and a normalized interval, the next
\* interval boundary, obtained by adding the interval to the start time with
\* TimeAdd once per interval, is normalized and equals the exact sum after
\* every number of additions.
C30_TimeAddNormalized ==
    \A f \in Flows :
        /\ Normalized(report[f].startTime)
        /\ Normalized(report[f].intervalTime)
        /\ Normalized(report[f].nextTime)
        /\ ExactSum(f)

\* The boundary of every flow, read as a number of microseconds, is the exact
\* sum, and its tv_usec never exceeds 1000000.
C30_ExactValue ==
    \A f \in Flows :
        /\ ExactSum(f)
        /\ report[f].nextTime.tv_usec \in 0..rMillion

====
